---------------------------- MODULE Spec2Model ----------------------------
(***************************************************************************)
(* A model of the Ema lexer / token list / parser core (namespace Q).      *)
(*                                                                         *)
(*   Q.Scanner  (src/unnamed/part_004)  TokenStream, the static token      *)
(*                                      list, applyEdit and                *)
(*                                      findTokenIndexAtPosition           *)
(*   Q.Parser   (src/unnamed/part_009)  the combinator engine              *)
(*   Q.Parser.Grammar (src/src/parserGrammar.ts, src/unnamed/part_003)     *)
(*   Q.Source   (src/src/source.ts)     File: content cache, edit, parse   *)
(*                                                                         *)
(* A text is a sequence of one-character strings.  Offsets, cursors and    *)
(* array indices are 0-based as in the source; TLA+ sequences are 1-based, *)
(* so element i of an array a is a[i + 1].                                 *)
(***************************************************************************)
EXTENDS Integers, Sequences, FiniteSets, TLC

VARIABLES
    content,      \* File.contentCache as a sequence; <<>> is the empty string
    loaded,       \* FALSE while File.contentCache is undefined
    backend,      \* StaticTokenListEntity.backend: the shared token array
    stream,       \* the TokenStream of the list: [text, cursor, current]
    pending,      \* the File.edit not yet passed on to Scanner.applyEdit
    editInfo,     \* what the last Scanner.applyEdit did and returned
    nEdits,       \* number of File.edit calls so far
    provider,     \* what System.IOHandler.read(path) resolves to
    parser,       \* the module-level state of Q.Parser (see below)
    parseInfo,    \* File.parseInfo: <<>> (undefined) or <<AST>>
    returned,     \* what the last parse call returned or threw
    observed,     \* the last call of a function looked at on its own,
                  \* NoCall again once the File's content may have changed
    caches        \* File.linesCache and File.lineLengthMapCache (see below)

vars == <<content, loaded, backend, stream, pending, editInfo, nEdits,
          provider, parser, parseInfo, returned, observed, caches>>

----------------------------------------------------------------------------
(* Small helpers.                                                          *)

\* No function has been called on its own yet.
NoCall == [fn |-> "", args |-> <<>>, result |-> <<>>]

\* A File whose linesCache and lineLengthMapCache are undefined.  lines and
\* map are <<>> (undefined) or <<value>>; the other fields are ghosts: epoch
\* counts the invalidations of the caches, linesAt, mapAt and parseAt are the
\* epochs in which linesCache, lineLengthMapCache and parseInfo were built,
\* and reads counts the reads of the provider in the present epoch.
NoCaches ==
    [lines |-> <<>>, map |-> <<>>, epoch |-> 0, linesAt |-> 0, mapAt |-> 0,
     parseAt |-> 0, reads |-> 0]

Min(a, b) == IF a < b THEN a ELSE b

Max(a, b) == IF a > b THEN a ELSE b

Last(s) == s[Len(s)]

Front(s) == SubSeq(s, 1, Len(s) - 1)

\* All sequences over S of length at most n.
SeqsUpTo(S, n) == UNION {[1..k -> S] : k \in 0..n}

\* JavaScript (x / d) | 0 for an integer x and d > 0: truncation toward zero.
TruncDiv(x, d) == IF x >= 0 THEN x \div d ELSE -((-x) \div d)

\* String.prototype.slice(from, to) for 0 <= from, to.
Slice(s, from, to) == SubSeq(s, Min(from, Len(s)) + 1, Min(to, Len(s)))

\* text[i]: the character at offset i, "" standing for undefined.
CharAt(text, i) == IF i >= 0 /\ i < Len(text) THEN text[i + 1] ELSE ""

----------------------------------------------------------------------------
(* Q.Scanner: character classes of the regular expressions in readNext.    *)

Digits == {"0", "1", "2", "3", "4", "5", "6", "7", "8", "9"}

Letters ==
    {"a", "b", "c", "d", "e", "f", "g", "h", "i", "j", "k", "l", "m",
     "n", "o", "p", "q", "r", "s", "t", "u", "v", "w", "x", "y", "z",
     "A", "B", "C", "D", "E", "F", "G", "H", "I", "J", "K", "L", "M",
     "N", "O", "P", "Q", "R", "S", "T", "U", "V", "W", "X", "Y", "Z"}

\* /[a-zA-Z\$_]/
IdStart == Letters \cup {"$", "_"}

\* /[a-zA-Z0-9_\-]/
IdPart == Letters \cup Digits \cup {"_", "-"}

\* /\s/ minus "\n" and "\r": what skipWhiteSpace skips.
BlankChars == {" ", "\t", "\f"}

Punctuations == {";", ".", ":", ",", "(", ")", "{", "}", "[", "]"}

SingleOperators == {"+", "-", "*", "/", "%", "|", "&", "^", "!"}

\* keywords = new Set(["func"])
keywords == {<<"f", "u", "n", "c">>}

\* The token kinds (enum TokenKind).
NUMERIC_LITERAL == "NUMERIC_LITERAL"
STRING_LITERAL == "STRING_LITERAL"
PUNCTUATION == "PUNCTUATION"
OPERATOR == "OPERATOR"
ASSIGNMENT_OPERATOR == "ASSIGNMENT_OPERATOR"
RELATIONAL_OPERATOR == "RELATIONAL_OPERATOR"
IDENTIFIER == "IDENTIFIER"
NEW_LINE == "NEW_LINE"

\* A token: kind, payload (value / name / operator / punctuation), position
\* (position.position), length, and the keyword flag of an identifier.
Token(kind, value, position, length) ==
    [kind |-> kind, value |-> value, position |-> position,
     length |-> length, keyword |-> (kind = IDENTIFIER /\ value \in keywords)]

\* null where a Token is expected.
NoToken ==
    [kind |-> "null", value |-> <<>>, position |-> -1, length |-> 0,
     keyword |-> FALSE]

\* A lexical error handed to source.addParseError.
LexError(code, position) == [code |-> code, position |-> position]

----------------------------------------------------------------------------
(* Q.Scanner.TokenStream                                                   *)

\* skipWhiteSpace: the cursor after the blanks at c.
RECURSIVE skipWhiteSpace(_, _)
skipWhiteSpace(text, c) ==
    IF CharAt(text, c) \in BlankChars THEN skipWhiteSpace(text, c + 1) ELSE c

\* The offset after the longest run of characters of S starting at c.
RECURSIVE RunEnd(_, _, _)
RunEnd(text, c, S) ==
    IF CharAt(text, c) \in S THEN RunEnd(text, c + 1, S) ELSE c

\* regExp(/^\d+(\.\d+)?/) at a digit: the offset after the match.
NumberEnd(text, c) ==
    LET d == RunEnd(text, c, Digits)
    IN  IF CharAt(text, d) = "." /\ CharAt(text, d + 1) \in Digits
        THEN RunEnd(text, d + 1, Digits)
        ELSE d

\* readEscaped(escape), entered with the cursor on the opening delimiter:
\* [str, cursor, closed].
RECURSIVE EscapedLoop(_, _, _, _, _)
EscapedLoop(text, c, escape, escaped, str) ==
    IF CharAt(text, c) = ""
    THEN [str |-> str, cursor |-> c, closed |-> FALSE]
    ELSE LET ch == CharAt(text, c)
         IN  IF escaped
             THEN EscapedLoop(text, c + 1, escape, FALSE, Append(str, ch))
             ELSE IF ch = "\\"
             THEN EscapedLoop(text, c + 1, escape, TRUE, str)
             ELSE IF ch = escape
             THEN [str |-> str, cursor |-> c + 1, closed |-> TRUE]
             ELSE EscapedLoop(text, c + 1, escape, FALSE, Append(str, ch))

\* A readEscaped that steps over the end of the text.
readEscapedPast(text, c, escape) ==
    [EscapedLoop(text, c + 1, escape, FALSE, <<>>) EXCEPT !.cursor = @ + 1]

readEscaped(text, c, escape) == EscapedLoop(text, c + 1, escape, FALSE, <<>>)

\* readNext from cursor c0 with the errors reported so far: the token read
\* (NoToken at the end of the text), the cursor after it, and the errors.
RECURSIVE readNext(_, _, _)
readNext(text, c0, errs) ==
    LET start == skipWhiteSpace(text, c0)
        ch0 == CharAt(text, start)
        ch1 == CharAt(text, start + 1)
        Ret(tok, c) == [token |-> tok, cursor |-> c, errors |-> errs]
    IN  IF ch0 = "" THEN Ret(NoToken, start)
        ELSE IF ch0 = "\n" THEN Ret(Token(NEW_LINE, <<>>, start, 1), start + 1)
        ELSE IF ch0 = "\r"
        THEN IF ch1 = "\n"
             THEN Ret(Token(NEW_LINE, <<>>, start, 2), start + 2)
             ELSE readNext(text, start + 1, errs)
        ELSE IF ch0 \in Digits
        THEN LET e == NumberEnd(text, start)
             IN  Ret(Token(NUMERIC_LITERAL, Slice(text, start, e), start,
                           e - start), e)
        ELSE IF ch0 = "." /\ ch1 \in Digits
        THEN LET e == RunEnd(text, start + 1, Digits)
             IN  Ret(Token(NUMERIC_LITERAL, Slice(text, start, e), start,
                           e - start), e)
        ELSE IF ch0 \in IdStart
        THEN LET e == RunEnd(text, start + 1, IdPart)
             IN  Ret(Token(IDENTIFIER, Slice(text, start, e), start,
                           e - start), e)
        ELSE IF ch0 \in {"\"", "'"}
        THEN LET r == readEscaped(text, start, ch0)
             IN  [token |-> Token(STRING_LITERAL, r.str, start, Len(r.str)),
                  cursor |-> r.cursor,
                  errors |-> IF r.closed THEN errs
                             ELSE Append(errs,
                                    LexError("UnterminatedStringLiteral",
                                             r.cursor))]
        ELSE IF ch1 = "=" /\ ch0 \in {"=", "!"}
        THEN Ret(Token(RELATIONAL_OPERATOR, <<ch0, ch1>>, start, 2), start + 2)
        ELSE IF ch1 = "=" /\ ch0 \in {"-", "+", "*", "/", "%"}
        THEN Ret(Token(ASSIGNMENT_OPERATOR, <<ch0, ch1>>, start, 2), start + 2)
        ELSE IF ch0 = ch1 /\ ch0 \in {"|", "&", "*", "+", "-"}
        THEN Ret(Token(OPERATOR, <<ch0, ch1>>, start, 2), start + 2)
        ELSE IF ch0 \in SingleOperators
        THEN Ret(Token(OPERATOR, <<ch0>>, start, 1), start + 1)
        ELSE IF ch0 \in {"<", ">"}
        THEN Ret(Token(RELATIONAL_OPERATOR, <<ch0>>, start, 1), start + 1)
        ELSE IF ch0 = "="
        THEN Ret(Token(ASSIGNMENT_OPERATOR, <<ch0>>, start, 1), start + 1)
        ELSE IF ch0 \in Punctuations
        THEN Ret(Token(PUNCTUATION, <<ch0>>, start, 1), start + 1)
        ELSE readNext(text, start + 1,
                      Append(errs, LexError("UnexpectedCharacter", start)))

\* list(): drain the stream from cursor c (no token memoized):
\* [tokens, ends, cursor, errors]; ends[i] is the cursor after token i.
RECURSIVE ListLoop(_, _, _, _, _)
ListLoop(text, c, toks, ends, errs) ==
    LET r == readNext(text, c, errs)
    IN  IF r.token = NoToken
        THEN [tokens |-> toks, ends |-> ends, cursor |-> r.cursor,
              errors |-> r.errors]
        ELSE ListLoop(text, r.cursor, Append(toks, r.token),
                      Append(ends, r.cursor), r.errors)

list(text, c) == ListLoop(text, c, <<>>, <<>>, <<>>)

\* toStaticLinkedList(new TokenStream(source)): the backing array of the
\* materialized list of a text.
Tokenize(text) == list(text, 0).tokens

----------------------------------------------------------------------------
(* Q.Scanner: the materialized ("static") token list.                      *)
(*                                                                         *)
(* A StaticTokenListEntity is (backend, index): its token is               *)
(* backend[index] || null, its next is the entity at index + 1 (cached in  *)
(* nextCache, so there is one entity per index reached from the head) and  *)
(* its prev is the entity it was created from: index - 1, null for the     *)
(* head.                                                                   *)

\* get token(): backend[index] || null.
TokenAt(b, index) ==
    IF index >= 0 /\ index < Len(b) THEN b[index + 1] ELSE NoToken

\* A splice that also removes the token after the deleted range.
SpliceOneMore(b, start, deleteCount, items) ==
    LET n == Len(b)
        s == IF start < 0 THEN Max(n + start, 0) ELSE Min(start, n)
        d == Min(Max(deleteCount, 0), n - s)
    IN  SubSeq(b, 1, s) \o items \o SubSeq(b, s + d + 2, n)

\* Array.prototype.splice(start, deleteCount, ...items) on array b.
Splice(b, start, deleteCount, items) ==
    LET n == Len(b)
        s == IF start < 0 THEN Max(n + start, 0) ELSE Min(start, n)
        d == Min(Max(deleteCount, 0), n - s)
    IN  SubSeq(b, 1, s) \o items \o SubSeq(b, s + d + 1, n)

\* A step that is never made smaller.
keepStep(step) == step

\* step = (step / 2) | 0 || 1
halveStep(step) == IF step \div 2 = 0 THEN 1 ELSE step \div 2

\* The while loop of findTokenIndexAtPosition from (index, step).  The loop's
\* whole state is (index, step), so meeting a pair again means it never
\* ends: outcome "hang".  backend[index] at a negative index is undefined
\* and reading its position throws: outcome "throw".
RECURSIVE FindLoop(_, _, _, _, _, _)
FindLoop(b, position, start, index, step, seen) ==
    IF ~(index < Len(b) /\ index >= start)
    THEN [outcome |-> "ok", index |-> -1]
    ELSE IF index < 0
    THEN [outcome |-> "throw", index |-> -1]
    ELSE IF <<index, step>> \in seen
    THEN [outcome |-> "hang", index |-> -1]
    ELSE LET token == b[index + 1]
             tstart == token.position
             nstep == halveStep(step)
             nseen == seen \cup {<<index, step>>}
         IN  IF tstart > position
             THEN FindLoop(b, position, start, index - step, nstep, nseen)
             ELSE IF position < tstart + token.length
             THEN [outcome |-> "ok", index |-> index]
             ELSE FindLoop(b, position, start, index + step, nstep, nseen)

\* findTokenIndexAtPosition(list, position, start): [outcome, index].
findTokenIndexAtPosition(b, position, start) ==
    LET len == Len(b) - start
    IN  FindLoop(b, position, start, TruncDiv(2 * start + len, 2),
                 TruncDiv(len, 4), {})

\* The re-lex loop of applyEdit: while (!stream.eof()) { token =
\* stream.next(); if (token.position.position >= newEndPos) break;
\* newTokens.push(token) }.  st is the stream [text, cursor, current].
RECURSIVE RelexLoop(_, _, _, _)
RelexLoop(st, newEndPos, newTokens, errs) ==
    LET r == IF st.current # NoToken
             THEN [token |-> st.current, cursor |-> st.cursor, errors |-> errs]
             ELSE readNext(st.text, st.cursor, errs)
        after == [st EXCEPT !.cursor = r.cursor, !.current = NoToken]
    IN  IF r.token = NoToken \/ r.token.position >= newEndPos
        THEN [stream |-> after, newTokens |-> newTokens, errors |-> r.errors]
        ELSE RelexLoop(after, newEndPos, Append(newTokens, r.token), r.errors)

\* What applyEdit returns when it does not return.
NoEdit(outcome, st, b) ==
    [outcome |-> outcome, stream |-> st, backend |-> b, sIndex |-> -1,
     eIndex |-> -1, editHead |-> -1, numInserted |-> 0, delCount |-> 0,
     newTokens |-> <<>>]

\* applyEdit(list, startPos, endPos, newEndPos) with list the head entity
\* (index 0) of backend b, st its stream and text the file's contentCache
\* ("" and undefined both make getContentSync throw).  A lexical error makes
\* readNext call source.addParseError, which Q.Source.File (src/src/source.ts)
\* does not define: the call throws.
applyEdit(b, st, text, isLoaded, startPos, endPos, newEndPos) ==
    IF ~isLoaded \/ text = <<>> THEN NoEdit("throw", st, b)
    ELSE
    LET jumped == [st EXCEPT !.text = text, !.cursor = startPos]
        lex == RelexLoop(jumped, newEndPos, <<>>, <<>>)
        s == findTokenIndexAtPosition(b, startPos, 0)
        e == findTokenIndexAtPosition(b, endPos - 1, s.index)
        delCount == e.index - s.index + 1
        nb == Splice(b, s.index, delCount, lex.newTokens)
    IN  IF lex.errors # <<>> THEN NoEdit("throw", jumped, b)
        ELSE IF s.outcome # "ok" THEN NoEdit(s.outcome, lex.stream, b)
        ELSE IF e.outcome # "ok" THEN NoEdit(e.outcome, lex.stream, b)
        ELSE IF s.index < 0 THEN NoEdit("hang", lex.stream, nb)
        ELSE [outcome |-> "ok", stream |-> lex.stream, backend |-> nb,
              sIndex |-> s.index, eIndex |-> e.index, editHead |-> s.index,
              numInserted |-> Len(lex.newTokens), delCount |-> delCount,
              newTokens |-> lex.newTokens]

----------------------------------------------------------------------------
(* Q.AST: nodes.  An optional field (a context field that is null or was   *)
(* never written) is a sequence of length 0 or 1.  `child` lists the nodes *)
(* whose parent link was set to this node by createPattern's wrapper;      *)
(* `inv` is a ghost field: the number of the rule invocation that built    *)
(* the node (0 for a node built outside any rule).                         *)

Identifier(start, end, name) ==
    [type |-> "Identifier", start |-> start, end |-> end, name |-> name,
     diagnostics |-> <<>>, child |-> <<>>, inv |-> 0]

\* $ => new AST.FunctionDeclaration($.location, $.name, $.parameters, [])
FunctionDeclaration(start, end, ctx, inv) ==
    [type |-> "FunctionDeclaration", start |-> start, end |-> end,
     name |-> ctx.name, parameters |-> ctx.parameters,
     hasParameters |-> ctx.hasParameters,
     diagnostics |-> <<>>, child |-> <<>>, inv |-> inv]

\* $ => new AST.Parameter($.location, $.name, $.type)
Parameter(start, end, ctx, inv) ==
    [type |-> "Parameter", start |-> start, end |-> end,
     name |-> ctx.name, ptype |-> ctx.ptype,
     diagnostics |-> <<>>, child |-> <<>>, inv |-> inv]

\* (loc, lhs, rhs) => new AST.MemberAccess(loc, lhs, rhs); lrBinary passes
\* the location (0, 0).
MemberAccess(base, member) ==
    [type |-> "MemberAccess", start |-> 0, end |-> 0, base |-> base,
     member |-> member, diagnostics |-> <<>>, child |-> <<>>, inv |-> 0]

\* The write-once context of a pattern before any step ran.
EmptyContext ==
    [name |-> <<>>, parameters |-> <<>>, hasParameters |-> FALSE,
     ptype |-> <<>>]

----------------------------------------------------------------------------
(* Q.Parser (src/unnamed/part_009): the engine's module-level state and    *)
(* its cursor and error-frame primitives.                                  *)
(*                                                                         *)
(* A parser state st holds the engine's variables                          *)
(*   b, cur      current: the entity (backend b, index cur)                *)
(*   stack       cursorStack, as entity indices                            *)
(*   frames      errorFrames                                               *)
(*   srcLen      currentSource's content length (getEOF)                   *)
(*   g           which Grammar is loaded                                   *)
(*   fault       "" or the error thrown                                    *)
(*   ret         the value returned by the call just made                  *)
(*   child       the child array of the pattern whose matcher just ran     *)
(* and ghost fields that record what happened: nid and act (a counter and  *)
(* the stack of the rule invocations in progress), low (the lowest cursor  *)
(* since the enclosing list iteration began), calls (one record per rule   *)
(* invocation ended), iters (one per list iteration ended), seps (one per  *)
(* readArraySep call ended), reports (every diagnostic reported) and       *)
(* tested (the cursors at which a step or a list test was evaluated).      *)

\* A diagnostic: its class, position.position, the expected-token name of
\* an ExpectedToken, and (ghost) the rule invocation it was reported in.
Diag(code, position, expected) ==
    [code |-> code, position |-> position, expected |-> expected, inv |-> 0]

\* What a matcher or a step returns: falsy (ok = FALSE), true, a node, or
\* an array of nodes (isArray).
RetFalse == [ok |-> FALSE, nodes |-> <<>>, isArray |-> FALSE]
RetTrue == [ok |-> TRUE, nodes |-> <<>>, isArray |-> FALSE]
RetNode(n) == [ok |-> TRUE, nodes |-> <<n>>, isArray |-> FALSE]
RetArray(ns) == [ok |-> TRUE, nodes |-> ns, isArray |-> TRUE]
RetBool(v) == IF v THEN RetTrue ELSE RetFalse

Throw(st, what) == IF st.fault = "" THEN [st EXCEPT !.fault = what] ELSE st

\* current = e (every assignment to the cursor goes through here).
SetCur(st, e) == [st EXCEPT !.cur = e, !.low = Min(@, e)]

CurToken(st) == TokenAt(st.b, st.cur)

\* store()
store(st) == [st EXCEPT !.stack = Append(@, st.cur)]

\* A restore that takes the oldest saved cursor instead of the newest.
restoreFirst(st) ==
    IF Len(st.stack) = 0 THEN Throw(st, "This is my fault.")
    ELSE [SetCur(st, st.stack[1]) EXCEPT !.stack = Tail(st.stack)]

\* restore()
restore(st) ==
    IF Len(st.stack) = 0 THEN Throw(st, "This is my fault.")
    ELSE [SetCur(st, Last(st.stack)) EXCEPT !.stack = Front(st.stack)]

\* Ghost: a pattern step, a separator test or an end test is evaluated at
\* the cursor.
Probe(st) == [st EXCEPT !.tested = @ \cup {st.cur}]

\* eof()
eof(st) == CurToken(st) = NoToken

\* The index of the first token at or after i that is not a NEW_LINE.
RECURSIVE SkipNewLines(_, _)
SkipNewLines(b, i) ==
    IF TokenAt(b, i).kind = NEW_LINE THEN SkipNewLines(b, i + 1) ELSE i

\* An advance that does not skip the newlines after the token it lands on.
nextOne(st) ==
    IF CurToken(st) = NoToken THEN st
    ELSE SetCur(st, st.cur + 1)

\* next()
next(st) ==
    IF CurToken(st) = NoToken THEN st
    ELSE SetCur(st, SkipNewLines(st.b, st.cur + 1))

\* The two revisions of the engine: src/unnamed/part_009, and the older
\* src/unnamed/part_008, which keeps the list constructedNodes and has
\* applyEdit.  st.rev says which one runs.
Parser009 == "part_009"
Parser008 == "part_008"

\* reportError(error).  With no error frame open part_009 throws and
\* part_008 hands the error to currentSource.addParseError.
reportError(st, error) ==
    LET d == [error EXCEPT !.inv = IF st.act = <<>> THEN 0
                                   ELSE Last(st.act)]
    IN  IF st.fault # "" THEN st
        ELSE IF Len(st.frames) = 0
        THEN IF st.rev = Parser008
             THEN [st EXCEPT !.fileErrors = Append(@, d),
                             !.reports = Append(@, d)]
             ELSE Throw(st, "Error")
        ELSE [st EXCEPT !.frames[Len(st.frames)] = Append(@, d),
                        !.reports = Append(@, d)]

\* popErrorFrame(report) of part_008, report being "value !== null": the
\* popped errors are reported again, to the frame below or to the file.
popErrorFrame008(st) ==
    IF Len(st.frames) = 0 THEN Throw(st, "")
    ELSE IF ~st.ret.ok THEN [st EXCEPT !.frames = Front(st.frames)]
    ELSE IF Len(st.frames) = 1
    THEN [st EXCEPT !.frames = <<>>,
                    !.fileErrors = @ \o Last(st.frames)]
    ELSE [st EXCEPT !.frames = Front(Front(st.frames))
                       \o <<st.frames[Len(st.frames) - 1]
                              \o Last(st.frames)>>]

\* addErrorFrame()
addErrorFrame(st) == [st EXCEPT !.frames = Append(@, <<>>)]

\* A popErrorFrame that returns before popping when there is no node.
popErrorFrameLeaky(st) ==
    IF st.fault # "" THEN st
    ELSE IF ~st.ret.ok THEN st
    ELSE IF Len(st.frames) = 0 THEN Throw(st, "")
    ELSE [st EXCEPT !.frames = Front(st.frames),
                    !.ret.nodes[1].diagnostics = @ \o Last(st.frames)]

\* popErrorFrame(node), node being st.ret: the returned state's ret is the
\* node with the frame's errors pushed onto its diagnostics.
popErrorFrame(st) ==
    IF st.fault # "" THEN st
    ELSE IF st.rev = Parser008 THEN popErrorFrame008(st)
    ELSE IF Len(st.frames) = 0 THEN Throw(st, "")
    ELSE IF ~st.ret.ok THEN [st EXCEPT !.frames = Front(st.frames)]
    ELSE [st EXCEPT !.frames = Front(st.frames),
                    !.ret.nodes[1].diagnostics = @ \o Last(st.frames)]

\* current.isKeyword(name)
isKeyword(st, name) ==
    LET t == CurToken(st)
    IN  t.kind = IDENTIFIER /\ t.keyword /\ t.value = name

\* entity.isPunctuation(punctuation) for the entity at index e
isPunctuation(st, e, punctuation) ==
    LET t == TokenAt(st.b, e)
    IN  t.kind = PUNCTUATION /\ t.value = <<punctuation>>

\* current.asIdentifer(): an Identifier node or null
asIdentifer(st) ==
    LET t == CurToken(st)
    IN  IF t.kind = IDENTIFIER /\ ~t.keyword
        THEN RetNode(Identifier(t.position, t.position + t.length, t.value))
        ELSE RetFalse

----------------------------------------------------------------------------
(* Q.Parser.Grammar.  Two revisions of the grammar are in the repository:  *)
(* src/src/parserGrammar.ts, whose parameter is a type reference followed  *)
(* by an identifier, and src/unnamed/part_003, whose parameter is a single *)
(* identifier.  st.g says which one the engine runs.                       *)

GrammarTs == "parserGrammar.ts"
GrammarPart003 == "part_003"

FUNC == <<"f", "u", "n", "c">>

\* The names array handed to createPattern for each rule.
names(g, rule) ==
    IF rule = "declaration"
    THEN <<"func", "identifier", "(", "parameters", ")">>
    ELSE IF g = GrammarTs THEN <<"type reference", "identifier">>
    ELSE <<"identifier">>

\* A threshold that rounds the half up.
manyRoundedUp(n) == (n + 1) \div 2

\* const many = (matchers.length / 2) | 0 || 1
many(n) == IF n \div 2 = 0 THEN 1 ELSE n \div 2

\* The factory of each rule applied to the finished context.
Factory(rule, start, end, ctx, inv) ==
    IF rule = "declaration" THEN FunctionDeclaration(start, end, ctx, inv)
    ELSE Parameter(start, end, ctx, inv)

----------------------------------------------------------------------------
(* Q.Parser: lrBinary, createPattern, readArraySep, readArray, parse.      *)

\* Ghost: a rule invocation begins / ends.
BeginCall(st) ==
    [st EXCEPT !.nid = @ + 1, !.act = Append(@, st.nid + 1)]

EndCall(st, st0, rule, popped) ==
    IF st.fault # "" THEN st
    ELSE [st EXCEPT
            !.act = Front(@),
            !.calls = Append(@,
               [rule |-> rule, inv |-> Last(st.act), entry |-> st0.cur,
                exit |-> st.cur, ok |-> st.ret.ok,
                stackIn |-> Len(st0.stack), stackOut |-> Len(st.stack),
                framesIn |-> Len(st0.frames), framesOut |-> Len(st.frames),
                popped |-> popped,
                sub |-> {c.inv : c \in {st.calls[k] :
                           k \in Len(st0.calls) + 1 .. Len(st.calls)}},
                node |-> st.ret.nodes, steps |-> st.steps])]

\* The while loop of lrBinary's matcher, for memberAccess:
\* isOp = $ => $.isPunctuation("."), rhs = () => current.asIdentifer(),
\* factory = (loc, lhs, rhs) => new AST.MemberAccess(loc, lhs, rhs).
\* Neither head nor rhs moves the cursor, so "if (e === current) next()"
\* always advances.
RECURSIVE lrBinaryLoop(_, _)
lrBinaryLoop(st, prev) ==
    IF eof(st) \/ ~isPunctuation(st, st.cur, ".")
    THEN [st EXCEPT !.ret = RetNode(prev)]
    ELSE LET s1 == next(st)
             right == asIdentifer(s1)
         IN  IF ~right.ok THEN [s1 EXCEPT !.ret = RetNode(prev)]
             ELSE lrBinaryLoop(next(s1), MemberAccess(prev, right.nodes[1]))

\* A matcher that returns its head and never looks for an operator.
lrBinaryHeadOnly(st) ==
    LET prev == asIdentifer(st)
    IN  IF ~prev.ok THEN [st EXCEPT !.ret = RetFalse]
        ELSE [next(st) EXCEPT !.ret = RetNode(prev.nodes[1])]

\* lrBinary's matcher, for memberAccess: head = () => current.asIdentifer().
lrBinaryMatcher(st) ==
    LET prev == asIdentifer(st)
    IN  IF ~prev.ok THEN [st EXCEPT !.ret = RetFalse]
        ELSE lrBinaryLoop(next(st), prev.nodes[1])

\* What the function lrBinary returns does once its matcher has returned in
\* state m: restore on failure, then pop the error frame.
lrBinaryReturn(st0, m) ==
    LET s2 == IF ~m.ret.ok THEN restore(m) ELSE m
    IN  EndCall(popErrorFrame(s2), st0, "memberAccess", Last(m.frames))

\* Grammar.memberAccess: the function lrBinary returns.
memberAccess(st0) ==
    IF st0.fault # "" THEN st0
    ELSE lrBinaryReturn(st0,
            lrBinaryMatcher(addErrorFrame(store(BeginCall(st0)))))

\* memberAccess() || current.asIdentifer(), memberAccess having returned in
\* state m.
orAsIdentifer(m) ==
    IF m.fault # "" \/ m.ret.ok THEN m
    ELSE [m EXCEPT !.ret = asIdentifer(m)]

\* Grammar.typeRef = () => memberAccess() || current.asIdentifer()
typeRef(st) == orAsIdentifer(memberAccess(st))

RECURSIVE createPattern(_, _)
RECURSIVE readArraySepLoop(_, _, _, _, _, _, _)

\* An end test that leaves out eof().
readArraySepEndNoEof(st) == isPunctuation(st, st.cur, ")")

\* readArraySep(parameter, $ => $.isPunctuation(","),
\*              $ => $.isPunctuation(")")): the end test
\* () => (isEnd ? eof() || isEnd(current) : eof()).
readArraySepEnd(st) == eof(st) \/ isPunctuation(st, st.cur, ")")

\* The test with the negation of hasSep left out.
missedSeparatorSlip(valueOk, hasSep, lastPushed) ==
    valueOk /\ hasSep /\ lastPushed

\* if (value && !hasSep && lastPushed): an item follows an item directly
missedSeparator(valueOk, hasSep, lastPushed) ==
    valueOk /\ ~hasSep /\ lastPushed

\* A separator test that looks for a separator after an item only.
hasSepAfterItemOnly(valueOk, atEnd, isSep) == valueOk /\ ~atEnd /\ isSep

\* hasSep = value ? !end() && isSep(current) : isSep(current)
hasSepNow(valueOk, atEnd, isSep) ==
    IF valueOk THEN ~atEnd /\ isSep ELSE isSep

\* A list loop that has run more iterations than any pass over the tokens
\* needs is not going to end: the model stops it with the fault "hang".
IterBudget(b) == (Len(b) + 2) * (Len(b) + 2)

Hung(st) == Len(st.iters) >= IterBudget(st.b)

\* The body of readArraySep's loop after "const value = matcher()" returned
\* in state m; st is the state the iteration began in.
readArraySepBody(st, base, collected, hasSep, lastSepToken, lastPushed, iters, m) ==
    LET value == m.ret
        lastToken == TokenAt(m.b, m.cur - 1)
        s1 == IF ~missedSeparator(value.ok, hasSep, lastPushed) THEN m
              ELSE IF lastToken = NoToken THEN Throw(m, "TypeError")
              ELSE reportError(m, Diag("MissedListSeparator",
                                 lastToken.position + lastToken.length, ""))
        nowSep == hasSepNow(value.ok, readArraySepEnd(s1),
                            isPunctuation(s1, s1.cur, ","))
        sepAt == IF value.ok /\ readArraySepEnd(s1) THEN lastSepToken
                 ELSE s1.cur
        s2 == IF nowSep THEN next(Probe(s1)) ELSE Probe(s1)
        s3 == IF value.ok THEN s2
              ELSE IF nowSep
              THEN reportError(s2, Diag("ExtraListSeparator",
                                        TokenAt(s2.b, sepAt).position, ""))
              ELSE IF CurToken(s2) = NoToken THEN Throw(s2, "TypeError")
              ELSE next(reportError(s2, Diag("UnexpectedToken",
                                             CurToken(s2).position, "")))
        iter == [fn |-> "readArraySep", start |-> st.cur,
                 afterMatch |-> m.cur, end |-> s3.cur, low |-> s3.low,
                 matched |-> value.ok, item |-> value.nodes,
                 hadSep |-> hasSep, lastPushed |-> lastPushed,
                 sep |-> nowSep,
                 reports |-> SubSeq(s3.reports, Len(m.reports) + 1,
                                    Len(s3.reports))]
    IN  IF m.fault # "" THEN m
        ELSE IF s3.fault # "" THEN s3
        ELSE IF Hung(s3) THEN Throw(s3, "hang")
        ELSE readArraySepLoop(
               [s3 EXCEPT !.iters = Append(@, iter)], base,
               IF value.ok THEN Append(collected, value.nodes[1])
               ELSE collected,
               nowSep, sepAt, value.ok, Append(iters, iter))

\* One readArraySep call from its first loop test on.  base is the state the
\* call began in; iters collects the ghost record of each iteration.
readArraySepLoop(st, base, collected, hasSep, lastSepToken, lastPushed, iters) ==
    IF st.fault # "" THEN st
    ELSE IF readArraySepEnd(st)
    THEN LET sepTok == TokenAt(st.b, lastSepToken)
             s1 == IF ~hasSep THEN Probe(st)
                   ELSE IF sepTok = NoToken THEN Throw(st, "TypeError")
                   ELSE reportError(Probe(st),
                          Diag("TrailingListSeparator", sepTok.position, ""))
         IN  IF s1.fault # "" THEN s1
             ELSE [s1 EXCEPT
                     !.ret = RetArray(collected),
                     !.low = Min(base.low, s1.low),
                     !.seps = Append(@,
                        [inv |-> IF st.act = <<>> THEN 0 ELSE Last(st.act),
                         entry |-> base.cur, exit |-> s1.cur,
                         iters |-> iters, collected |-> collected,
                         trailing |-> hasSep])]
    ELSE readArraySepBody(st, base, collected, hasSep, lastSepToken,
                          lastPushed, iters,
                          createPattern("parameter",
                                        [Probe(st) EXCEPT !.low = st.cur]))

readArraySep(st) ==
    readArraySepLoop(st, st, <<>>, FALSE, -1, FALSE, <<>>)

\* What a step hands back: the state r it returned in (its return value in
\* r.ret) and the context.
StepResult(r, ctx) == [st |-> r, ctx |-> ctx]

\* $ => ($.parameters = readArraySep(...)), readArraySep having returned in r
SetParameters(r, ctx) ==
    StepResult(r, [ctx EXCEPT !.parameters = r.ret.nodes,
                              !.hasParameters = TRUE])

\* _ => (_.type = typeRef()), typeRef having returned in r
SetType(r, ctx) == StepResult(r, [ctx EXCEPT !.ptype = r.ret.nodes])

\* $ => ($.name = current.asIdentifer())
SetName(st, ctx) ==
    StepResult([st EXCEPT !.ret = asIdentifer(st)],
               [ctx EXCEPT !.name = asIdentifer(st).nodes])

\* Step i of a rule's pattern, run in state st with context ctx.
Step(rule, i, st, ctx) ==
    IF rule = "declaration"
    THEN CASE i = 0 ->
                StepResult([st EXCEPT !.ret = RetBool(isKeyword(st, FUNC))],
                           ctx)
           [] i = 1 -> SetName(st, ctx)
           [] i = 2 ->
                StepResult([st EXCEPT !.ret =
                              RetBool(isPunctuation(st, st.cur, "("))], ctx)
           [] i = 3 -> SetParameters(readArraySep(st), ctx)
           [] OTHER ->
                StepResult([st EXCEPT !.ret =
                              RetBool(isPunctuation(st, st.cur, ")"))], ctx)
    ELSE IF st.g = GrammarTs /\ i = 0 THEN SetType(typeRef(st), ctx)
    ELSE SetName(st, ctx)

\* Ghost: how the for loop of createPattern's matcher ended: the value of
\* counter, the step before which eof() held (-1: none) and the number of
\* steps that ran.
Tally(st, counter, eofAt, ran) ==
    [st EXCEPT !.steps = [counter |-> counter, eofAt |-> eofAt, ran |-> ran]]

\* The code after the for loop of createPattern's matcher.  entity is the
\* cursor saved before the last step that ran (-1: none), start the token the
\* matcher began at.
matcherReturn(rule, st, ctx, child, counter, entity, start) ==
    LET lastToken == TokenAt(st.b, entity)
    IN  IF st.fault # "" THEN st
        ELSE IF counter < many(Len(names(st.g, rule)))
        THEN [st EXCEPT !.ret = RetFalse, !.child = <<>>]
        ELSE IF entity < 0 \/ lastToken = NoToken \/ start = NoToken
        THEN Throw(st, "TypeError")
        ELSE [st EXCEPT
                !.ret = RetNode(Factory(rule, start.position,
                                  lastToken.position + lastToken.length,
                                  ctx, Last(st.act))),
                !.child = child]

RECURSIVE matcherLoop(_, _, _, _, _, _, _, _)

\* part_008: if (ret instanceof AST.Identifier) the node is pushed onto
\* constructedNodes and nodesMap maps it to the entity the step began at and
\* to the closure () => current.asIdentifer().
Constructed(st, ret, entity) ==
    IF /\ st.rev = Parser008
       /\ ret.ok /\ ~ret.isArray /\ ret.nodes # <<>>
       /\ ret.nodes[1].type = "Identifier"
    THEN [st EXCEPT !.constructed =
            Append(@, [node |-> ret.nodes[1], token |-> entity,
                       fn |-> "asIdentifer"])]
    ELSE st

\* The body of the for loop after "const ret = matchers[i](context)" handed
\* back r; st is the state the iteration began in (entity = st.cur).
matcherBody(rule, i, st, child, counter, start, r) ==
    LET ret == r.st.ret
        back == SetCur(r.st, st.cur)
        s2 == IF ret.ok THEN r.st
              ELSE IF CurToken(back) = NoToken THEN Throw(back, "TypeError")
              ELSE reportError(back,
                     Diag("ExpectedToken", CurToken(back).position,
                          names(st.g, rule)[i + 1]))
        s3 == IF st.cur = s2.cur /\ ~(ret.isArray /\ ret.nodes = <<>>)
              THEN next(s2)
              ELSE IF ~ret.ok /\ i = Len(names(st.g, rule)) - 1 THEN next(s2)
              ELSE s2
    IN  IF r.st.fault # "" THEN r.st
        ELSE matcherLoop(rule, i + 1, Constructed(s3, ret, st.cur), r.ctx,
                         IF ret.ok THEN child \o ret.nodes ELSE child,
                         IF ret.ok THEN counter + 1 ELSE counter,
                         st.cur, start)

\* An end-of-input test that gives the rule up whatever has matched.
eofGivesUpAlways(i, counter, n) == TRUE

\* if (i === 0 || counter < many) return null, n being matchers.length
eofGivesUp(i, counter, n) == i = 0 \/ counter < many(n)

\* currentSource.getEOF(): File.getEOF reads the content with getContentSync
getEOF(st) == st.srcLen

\* The for loop of createPattern's matcher, from the test of step i on.
matcherLoop(rule, i, st, ctx, child, counter, entity, start) ==
    IF st.fault # "" THEN st
    ELSE IF i >= Len(names(st.g, rule))
    THEN matcherReturn(rule, Tally(st, counter, -1, i), ctx, child, counter,
                       entity, start)
    ELSE IF eof(st)
    THEN IF eofGivesUp(i, counter, Len(names(st.g, rule)))
         THEN [Tally(st, counter, i, i) EXCEPT !.ret = RetFalse,
                                               !.child = <<>>]
         ELSE matcherReturn(rule,
                IF getEOF(st) = 0 THEN Throw(st, "Error")
                ELSE reportError(Tally(st, counter, i, i),
                                 Diag("UnexpectedEOF", getEOF(st), "")),
                ctx, child, counter, entity, start)
    ELSE matcherBody(rule, i, Probe(st), child, counter, start,
                     Step(rule, i, Probe(st), ctx))

\* createPattern's matcher
matcher(rule, st) ==
    matcherLoop(rule, 0, st, EmptyContext, <<>>, 0, -1, CurToken(st))

\* What the function createPattern returns does once its matcher has
\* returned in state m: restore on failure, set the children's parent on
\* success, then pop the error frame.
createPatternReturn(rule, st0, m) ==
    LET s2 == IF m.fault # "" THEN m
              ELSE IF ~m.ret.ok THEN restore(m)
              ELSE IF m.rev = Parser008
              THEN [m EXCEPT !.constructed =
                      Append(@, [node |-> m.ret.nodes[1],
                                 token |-> st0.cur, fn |-> rule])]
              ELSE [m EXCEPT !.ret.nodes[1].child = m.child]
    IN  EndCall(popErrorFrame(s2), st0, rule, Last(m.frames))

\* The function createPattern returns, for the rule named.
createPattern(rule, st0) ==
    IF st0.fault # "" THEN st0
    ELSE createPatternReturn(rule, st0,
            matcher(rule, addErrorFrame(store(BeginCall(st0)))))

RECURSIVE readArrayLoop(_, _)

\* The body of readArray's loop after "const value = matcher()" returned in
\* state m; st is the state the iteration began in.  No end matcher is
\* passed by Grammar.source.
readArrayBody(st, collected, m) ==
    LET value == m.ret
        s1 == IF value.ok THEN m
              ELSE IF CurToken(m) = NoToken THEN Throw(m, "TypeError")
              ELSE next(reportError(m, Diag("UnexpectedToken",
                                            CurToken(m).position, "")))
        iter == [fn |-> "readArray", start |-> st.cur,
                 afterMatch |-> m.cur, end |-> s1.cur, low |-> s1.low,
                 matched |-> value.ok, item |-> value.nodes,
                 hadSep |-> FALSE, lastPushed |-> FALSE, sep |-> FALSE,
                 reports |-> SubSeq(s1.reports, Len(m.reports) + 1,
                                    Len(s1.reports))]
    IN  IF m.fault # "" THEN m
        ELSE IF s1.fault # "" THEN s1
        ELSE IF Hung(s1) THEN Throw(s1, "hang")
        ELSE readArrayLoop([s1 EXCEPT !.iters = Append(@, iter)],
                           IF value.ok THEN Append(collected, value.nodes[1])
                           ELSE collected)

\* readArray(declaration): Grammar.source
readArrayLoop(st, collected) ==
    IF st.fault # "" THEN st
    ELSE IF eof(st) THEN [st EXCEPT !.ret = RetArray(collected)]
    ELSE readArrayBody(st, collected,
                       createPattern("declaration",
                                     [st EXCEPT !.low = st.cur]))

readArray(st) == readArrayLoop(st, <<>>)

\* The engine's module-level state when the module is loaded, with grammar g.
ParserLoaded(g) ==
    [b |-> <<>>, cur |-> 0, stack |-> <<>>, frames |-> <<>>, srcLen |-> 0,
     g |-> g, fault |-> "", ret |-> RetFalse, child |-> <<>>, nid |-> 0,
     act |-> <<>>, low |-> 0, calls |-> <<>>, iters |-> <<>>, seps |-> <<>>,
     reports |-> <<>>, steps |-> [counter |-> 0, eofAt |-> -1, ran |-> 0],
     parses |-> 0, depths |-> [stack |-> 0, frames |-> 0],
     previous |-> <<>>, rev |-> Parser009, constructed |-> <<>>,
     fileErrors |-> <<>>, tested |-> {}]

\* The engine of part_008 when the module is loaded: its grammar is the one
\* of part_003.
ParserLoaded008 == [ParserLoaded(GrammarPart003) EXCEPT !.rev = Parser008]

\* What parse does between the reset of the cursor and the call of the
\* grammar: part_009 adds an error frame, part_008 empties constructedNodes.
BeforeSource(st) ==
    IF st.rev = Parser008 THEN [st EXCEPT !.constructed = <<>>]
    ELSE addErrorFrame(st)

\* Ghost: what the parse call before this one left: what it threw, the AST
\* it returned and the diagnostics it reported (<<>>: no call before).
Previous(st0) ==
    IF st0.parses = 0 THEN <<>>
    ELSE <<[fault |-> st0.fault,
            AST |-> IF st0.fault = "" THEN st0.ret.nodes ELSE <<>>,
            reports |-> st0.reports]>>

\* Ghost: the depth of cursorStack and of errorFrames when Grammar.source()
\* is called.
AtSource(st) ==
    [st EXCEPT !.depths = [stack |-> Len(st.stack),
                           frames |-> Len(st.frames)]]

\* A parse that goes on from where the cursor was left.
parseFromCurrent(st0, b, srcLen) ==
    LET s1 == [st0 EXCEPT !.b = b, !.srcLen = srcLen, !.stack = <<0>>,
                          !.cur = SkipNewLines(b, st0.cur),
                          !.low = SkipNewLines(b, st0.cur),
                          !.fault = "", !.ret = RetFalse, !.child = <<>>,
                          !.nid = 0, !.act = <<>>, !.calls = <<>>,
                          !.iters = <<>>, !.seps = <<>>, !.reports = <<>>,
                          !.steps = [counter |-> 0, eofAt |-> -1, ran |-> 0],
                          !.parses = @ + 1, !.previous = Previous(st0),
                          !.tested = {}]
    IN  readArray(AtSource(BeforeSource(s1)))

\* parse(tokens) run in engine state st0: tokens is the head of the static
\* list over backend b, whose source holds srcLen characters.  The ghost
\* logs start afresh; cursorStack is reset, errorFrames is not.
parse(st0, b, srcLen) ==
    LET s1 == [st0 EXCEPT !.b = b, !.srcLen = srcLen, !.stack = <<0>>,
                          !.cur = SkipNewLines(b, 0),
                          !.low = SkipNewLines(b, 0),
                          !.fault = "", !.ret = RetFalse, !.child = <<>>,
                          !.nid = 0, !.act = <<>>, !.calls = <<>>,
                          !.iters = <<>>, !.seps = <<>>, !.reports = <<>>,
                          !.steps = [counter |-> 0, eofAt |-> -1, ran |-> 0],
                          !.parses = @ + 1, !.previous = Previous(st0),
                          !.tested = {}]
    IN  readArray(AtSource(BeforeSource(s1)))

----------------------------------------------------------------------------
(* Q.Source.File: the content cache and edit.                              *)

\* File.edit(start, end, text) on contentCache c: before + text + after.
FileEditContent(c, start, end, text) ==
    Slice(c, 0, start) \o text \o Slice(c, end, Len(c))

\* newEnd = end + (text.length - (end - start))
NewEndOf(start, end, text) == end + (Len(text) - (end - start))

\* A reset that leaves linesCache as it is.
resetCacheKeepsLines(c) == [c EXCEPT !.map = <<>>]

\* resetCache(), for lineLengthMapCache and linesCache; contentCache and
\* parseInfo are reset by the action that calls it.
resetCache(c) == [c EXCEPT !.lines = <<>>, !.map = <<>>]

\* Ghost: a new epoch begins with every invalidation.
Invalidated(c) == [c EXCEPT !.epoch = @ + 1, !.reads = 0]

----------------------------------------------------------------------------
(* Editing a materialized token list, as test/parser/edit.ts drives it:    *)
(* File.edit changes the content, then Scanner.applyEdit is called on the  *)
(* list with the edit's offsets.                                           *)

\* Bounds of the edited texts.
MaxLen == 3
MaxNew == 1

\* Characters of the edited texts: an identifier character, a punctuation,
\* a blank and a string delimiter.
EditAlphabet == {"a", "(", " ", "\""}

NoPending ==
    [active |-> FALSE, start |-> 0, endPos |-> 0, newEnd |-> 0,
     text |-> <<>>, oldContent |-> <<>>]

NoEditInfo ==
    [called |-> FALSE, start |-> 0, endPos |-> 0, newEnd |-> 0,
     text |-> <<>>, oldContent |-> <<>>, oldBackend |-> <<>>,
     result |-> NoEdit("none", [text |-> <<>>, cursor |-> 0,
                                current |-> NoToken], <<>>)]

NotReturned ==
    [called |-> FALSE, fault |-> "", AST |-> <<>>, of |-> <<>>,
     cached |-> FALSE, edits |-> 0]

\* A loaded file whose text lexes without error, and its materialized list:
\* new TokenStream(source) reads the content, toStaticLinkedList drains it.
InitEdit ==
    /\ content \in SeqsUpTo(EditAlphabet, MaxLen)
    /\ content # <<>>
    /\ list(content, 0).errors = <<>>
    /\ loaded = TRUE
    /\ backend = Tokenize(content)
    /\ stream = [text |-> content, cursor |-> list(content, 0).cursor,
                 current |-> NoToken]
    /\ pending = NoPending
    /\ editInfo = NoEditInfo
    /\ nEdits = 0
    /\ provider = content
    /\ parser = ParserLoaded(GrammarTs)
    /\ parseInfo = <<>>
    /\ returned = NotReturned
    /\ observed = NoCall
    /\ caches = NoCaches

\* source.edit(start, end, text), as test/parser/edit.ts calls it on a
\* loaded file before it calls Scanner.applyEdit with the same offsets.
SourceEdit(start, end, text) ==
    /\ ~pending.active
    /\ nEdits = 0
    /\ loaded
    /\ content' = FileEditContent(content, start, end, text)
    /\ pending' = [active |-> TRUE, start |-> start, endPos |-> end,
                   newEnd |-> NewEndOf(start, end, text), text |-> text,
                   oldContent |-> content]
    /\ nEdits' = nEdits + 1
    /\ caches' = Invalidated(resetCache(caches))
    /\ UNCHANGED <<loaded, backend, stream, editInfo, provider, parser,
                   parseInfo, returned, observed>>

\* Scanner.applyEdit(tokens, start, end, newEnd) for the pending edit.
ScannerApplyEdit ==
    /\ pending.active
    /\ LET r == applyEdit(backend, stream, content, loaded, pending.start,
                          pending.endPos, pending.newEnd)
       IN  /\ backend' = r.backend
           /\ stream' = r.stream
           /\ editInfo' = [called |-> TRUE, start |-> pending.start,
                           endPos |-> pending.endPos,
                           newEnd |-> pending.newEnd, text |-> pending.text,
                           oldContent |-> pending.oldContent,
                           oldBackend |-> backend, result |-> r]
    /\ pending' = NoPending
    /\ UNCHANGED <<content, loaded, nEdits, provider, parser, parseInfo,
                   returned, observed, caches>>

NextEdit ==
    \/ \E start \in 0..Len(content) : \E end \in start..Len(content) :
          \E text \in SeqsUpTo(EditAlphabet, MaxNew) :
             SourceEdit(start, end, text)
    \/ ScannerApplyEdit

SpecEdit == InitEdit /\ [][NextEdit]_vars

\* The list before the last applyEdit, the end offset of each of its tokens
\* in the text they were lexed from, and what the inserted text lexes to.
OldList == editInfo.oldBackend

OldEnds == list(editInfo.oldContent, 0).ends

NewLex == list(editInfo.text, 0)

TokenIndices == 1..Len(OldList)

\* The tokens whose complete text the edit replaced.
Replaced ==
    {k \in TokenIndices : /\ OldList[k].position = editInfo.start
                          /\ OldEnds[k] = editInfo.endPos}

\* C1 -- When the complete text of one token is replaced by text that lexes
\* to exactly one token and applyEdit is called with start at that token's
\* start offset, the result has numInserted = 1 and delCount = 1,
\* editHead.token is the newly lexed token, and editHead.prev and
\* editHead.next are the tokens that preceded and followed the replaced one.
C1_SingleTokenReplacement ==
    (/\ editInfo.called
     /\ Len(NewLex.tokens) = 1
     /\ NewLex.errors = <<>>) =>
        \A k \in Replaced :
            /\ editInfo.result.outcome = "ok"
            /\ editInfo.result.numInserted = 1
            /\ editInfo.result.delCount = 1
            /\ TokenAt(backend, editInfo.result.editHead)
                  = editInfo.result.newTokens[1]
            /\ TokenAt(backend, editInfo.result.editHead - 1)
                  = TokenAt(OldList, k - 2)
            /\ TokenAt(backend, editInfo.result.editHead + 1)
                  = TokenAt(OldList, k)

\* The tokens a deleted range starts at, ends at, and intersects.
StartsAt == {k \in TokenIndices : OldList[k].position = editInfo.start}

EndsAt == {k \in TokenIndices : OldEnds[k] = editInfo.endPos}

Intersected ==
    {k \in TokenIndices : /\ OldList[k].position < editInfo.endPos
                          /\ OldEnds[k] > editInfo.start}

\* C2 -- For a pure deletion whose range begins at the first character of
\* a token and ends at the last character of a token, applyEdit reports
\* numInserted = 0 and delCount equal to the number of old tokens whose
\* spans intersect the range, and editHead.prev is the token immediately
\* before the deleted range.
C2_PureDeletion ==
    (/\ editInfo.called
     /\ editInfo.text = <<>>
     /\ editInfo.start < editInfo.endPos
     /\ StartsAt # {}
     /\ EndsAt # {}) =>
        /\ editInfo.result.outcome = "ok"
        /\ editInfo.result.numInserted = 0
        /\ editInfo.result.delCount = Cardinality(Intersected)
        /\ \A k \in StartsAt :
              TokenAt(backend, editInfo.result.editHead - 1)
                = TokenAt(OldList, k - 2)

----------------------------------------------------------------------------
(* Parsing token lists: a text is lexed by a TokenStream, drained into a   *)
(* static list by toStaticLinkedList, and handed to Parser.parse.          *)

\* Bounds of the parsed texts: words chosen freely, and parses per engine.
MaxToks == 4
MaxParses == 1

\* The words the texts are made of: every token the grammar tests for.
Vocabulary ==
    {FUNC, <<"x">>, <<"(">>, <<")">>, <<",">>, <<".">>, <<"\n">>}

\* The words joined by single blanks.
RECURSIVE Render(_)
Render(words) ==
    IF words = <<>> THEN <<>>
    ELSE IF Len(words) = 1 THEN words[1]
    ELSE words[1] \o <<" ">> \o Render(Tail(words))

\* A text begins anywhere, or inside the parameter list of a declaration.
Heads == {<<>>, <<FUNC, <<"x">>, <<"(">> >>}

\* The program of test/parser/parser.ts and test/parser/edit.ts.
TestProgram ==
    <<"f", "u", "n", "c", " ", "a", "(", ")", "\n", "\n",
      "f", "u", "n", "c", " ", "b", "(", "X", ",", " ", "Y", ")">>

\* func NAME(P1, ..., Pk) for a sequence of parameter names.
RECURSIVE ParameterWords(_)
ParameterWords(ps) ==
    IF ps = <<>> THEN <<>>
    ELSE IF Len(ps) = 1 THEN <<ps[1]>>
    ELSE <<ps[1], <<",">> >> \o ParameterWords(Tail(ps))

DeclarationWords(d) ==
    <<FUNC, d.name, <<"(">> >> \o ParameterWords(d.params) \o << <<")">> >>

\* The declarations of a program, newline separated.
RECURSIVE ProgramWords(_)
ProgramWords(prog) ==
    IF Len(prog) = 1 THEN DeclarationWords(prog[1])
    ELSE DeclarationWords(prog[1]) \o << <<"\n">> >>
            \o ProgramWords(Tail(prog))

ParameterNames == {<<"x">>, <<"y", "2">>}

FunctionNames == {<<"a">>, <<"b", "_">>}

\* Bound on the parameters of a well-formed declaration.
MaxParams == 2

\* Well-formed programs: one or two declarations, each [name, params].
WellFormedPrograms ==
    LET decls == {[name |-> n, params |-> ps] :
                    n \in FunctionNames,
                    ps \in SeqsUpTo(ParameterNames, MaxParams)}
    IN  {<<d>> : d \in decls} \cup {<<d, e>> : d \in decls, e \in decls}

\* Each well-formed program with its text, the test's program among them.
WellFormedCases ==
    {[prog |-> prog, text |-> Render(ProgramWords(prog))] :
        prog \in WellFormedPrograms}
      \cup {[prog |-> <<[name |-> <<"a">>, params |-> <<>>],
                        [name |-> <<"b">>,
                         params |-> << <<"X">>, <<"Y">> >>]>>,
             text |-> TestProgram]}

ParseTexts ==
    {Render(h \o w) : h \in Heads, w \in SeqsUpTo(Vocabulary, MaxToks)}
      \cup {c.text : c \in WellFormedCases}

Grammars == {GrammarTs, GrammarPart003}

NoStream == [text |-> <<>>, cursor |-> 0, current |-> NoToken]

\* The engine is loaded with one of the grammars; the text is loaded and its
\* token list materialized.
InitParse ==
    /\ content \in ParseTexts
    /\ loaded = TRUE
    /\ backend = Tokenize(content)
    /\ stream = [text |-> content, cursor |-> list(content, 0).cursor,
                 current |-> NoToken]
    /\ pending = NoPending
    /\ editInfo = NoEditInfo
    /\ nEdits = 0
    /\ provider = content
    /\ \E g \in Grammars : parser = ParserLoaded(g)
    /\ parseInfo = <<>>
    /\ returned = NotReturned
    /\ observed = NoCall
    /\ caches = NoCaches

\* What a parse call that ended in engine state r returned or threw: of is
\* the text the caller had, edits the number of File.edit calls before it.
Returned(r, text) ==
    [called |-> TRUE, fault |-> r.fault,
     AST |-> IF r.fault = "" THEN r.ret.nodes ELSE <<>>,
     of |-> text, cached |-> FALSE, edits |-> nEdits]

\* Parser.parse(tokens) for the materialized list, at most n times.
ParserParseUpTo(n) ==
    /\ parser.parses < n
    /\ \E r \in {parse(parser, backend, Len(content))} :
          /\ parser' = r
          /\ returned' = Returned(r, content)
    /\ UNCHANGED <<content, loaded, backend, stream, pending, editInfo,
                   nEdits, provider, parseInfo, observed, caches>>

ParserParse == ParserParseUpTo(MaxParses)

NextParse == ParserParse

SpecParse == InitParse /\ [][NextParse]_vars

----------------------------------------------------------------------------
(* A source file that is loaded, edited and parsed: File.getContent,       *)
(* File.edit and File.parse of src/src/source.ts.                          *)

\* Bound on the File.edit calls of a run.
MaxEdits == 2

\* Bound on the reads of the provider between two invalidations.
MaxReads == 2

\* The characters an edit inserts.
FileAlphabet == {"b", "("}

\* What the provider may hold: nothing, or one declaration.
ProviderTexts == {<<>>, Render(<<FUNC, <<"a">> >>)}

InitFile ==
    /\ provider \in ProviderTexts
    /\ content = <<>>
    /\ loaded = FALSE
    /\ backend = <<>>
    /\ stream = NoStream
    /\ pending = NoPending
    /\ editInfo = NoEditInfo
    /\ nEdits = 0
    /\ \E g \in Grammars : parser = ParserLoaded(g)
    /\ parseInfo = <<>>
    /\ returned = NotReturned
    /\ observed = NoCall
    /\ caches = NoCaches

\* if (this.contentCache) return this.contentCache: the empty string is
\* falsy, as undefined is.
ContentCached == loaded /\ content # <<>>

\* What getContent resolves to
ContentNow == IF ContentCached THEN content ELSE provider

\* await source.getContent()
FileGetContent ==
    /\ ~ContentCached
    /\ caches.reads < MaxReads
    /\ content' = provider
    /\ loaded' = TRUE
    /\ caches' = [caches EXCEPT !.reads = @ + 1]
    /\ observed' = NoCall
    /\ UNCHANGED <<backend, stream, pending, editInfo, nEdits, provider,
                   parser, parseInfo, returned>>

\* source.edit(start, end, text) on a loaded source: resetCache, then the
\* content is set to before + text + after.
FileEdit(start, end, text) ==
    /\ loaded
    /\ nEdits < MaxEdits
    /\ content' = FileEditContent(content, start, end, text)
    /\ parseInfo' = <<>>
    /\ nEdits' = nEdits + 1
    /\ caches' = Invalidated(resetCache(caches))
    /\ observed' = NoCall
    /\ UNCHANGED <<loaded, backend, stream, pending, editInfo, provider,
                   parser, returned>>

\* What File.parse does when parseInfo is undefined, given the content text
\* getContent resolved to and its lexing lex: new TokenStream(this) reads the
\* content with getContentSync, which throws for an empty cache;
\* toStaticLinkedList drains the stream, and a lexical error is handed to
\* source.addParseError, which this File does not have; Parser.parse.
FileParseFresh(text, lex) ==
    IF text = <<>>
    THEN [parser EXCEPT !.fault = "Source content is not loaded."]
    ELSE IF lex.errors # <<>>
    THEN [parser EXCEPT !.fault = "TypeError"]
    ELSE parse(parser, lex.tokens, Len(text))

\* await source.parse()
FileParse ==
    IF parseInfo # <<>>
    THEN /\ returned' = [called |-> TRUE, fault |-> "", AST |-> parseInfo[1],
                         of |-> content, cached |-> TRUE, edits |-> nEdits]
         /\ UNCHANGED <<content, loaded, backend, stream, pending, editInfo,
                        nEdits, provider, parser, parseInfo, observed, caches>>
    ELSE \E r \in {FileParseFresh(ContentNow, list(ContentNow, 0))} :
            /\ ContentCached \/ caches.reads < MaxReads
            /\ caches' = [caches EXCEPT
                             !.reads = IF ContentCached THEN @ ELSE @ + 1,
                             !.parseAt = IF r.fault = "" THEN caches.epoch
                                         ELSE @]
            /\ content' = ContentNow
            /\ loaded' = TRUE
            /\ returned' = Returned(r, IF loaded THEN content ELSE provider)
            /\ parseInfo' = IF r.fault = "" THEN <<r.ret.nodes>> ELSE <<>>
            /\ backend' = IF r.fault = "" THEN r.b ELSE backend
            /\ parser' = IF r.fault = "Source content is not loaded."
                             \/ r.fault = "TypeError"
                         THEN parser ELSE r
            /\ observed' = NoCall
            /\ UNCHANGED <<stream, pending, editInfo, nEdits, provider>>

\* The concatenation of a sequence of sequences.
RECURSIVE Flatten(_)
Flatten(ss) == IF ss = <<>> THEN <<>> ELSE Head(ss) \o Flatten(Tail(ss))

\* node.getChildren(), a null child left out.
getChildren(node) ==
    CASE node.type = "FunctionDeclaration" -> node.name \o node.parameters
      [] node.type = "Parameter" -> node.name \o node.ptype
      [] node.type = "MemberAccess" -> <<node.base, node.member>>
      [] OTHER -> <<>>

\* node.getAllDiagnostics(): the node's own diagnostics, then those of its
\* children, depth first.
RECURSIVE getAllDiagnostics(_)
getAllDiagnostics(node) ==
    node.diagnostics
      \o Flatten([k \in 1..Len(getChildren(node)) |->
                    getAllDiagnostics(getChildren(node)[k])])

\* source.getParseErrors() with parseInfo = info (<<>>: undefined): the
\* diagnostics of the nodes of parseInfo.AST themselves.
getParseErrors(info) ==
    IF info = <<>> THEN <<>>
    ELSE Flatten([k \in 1..Len(info[1]) |-> info[1][k].diagnostics])

\* get hasError() { return this.getParseErrors.length > 0 }: the length of
\* the method getParseErrors, a function of no formal parameter, is 0; the
\* method is not called.
hasError(info) == Len(<<>>) > 0

NextFile ==
    \/ FileGetContent
    \/ \E start \in 0..Len(content) : \E end \in start..Len(content) :
          \E text \in SeqsUpTo(FileAlphabet, MaxNew) :
             FileEdit(start, end, text)
    \/ FileParse

SpecFile == InitFile /\ [][NextFile]_vars

\* Parser.parse on the tokens of text c, by an engine loaded with grammar g.
ASTOf(c, g) == parse(ParserLoaded(g), Tokenize(c), Len(c)).ret.nodes

\* C3 -- After any sequence of File.edit calls on a loaded source, the next
\* parse() returns the AST of the current edited content, for every
\* replacement text, also one that leaves the content empty: never a cached
\* AST, never the AST of what the provider holds.
C3_ParseReturnsEditedContent ==
    (returned.called /\ returned.edits > 0) =>
        /\ returned.fault = ""
        /\ returned.AST = ASTOf(returned.of, parser.g)

----------------------------------------------------------------------------
(* What a finished parse left behind, read from the engine's ghost logs.   *)

Parsed == returned.called

Calls == {parser.calls[k] : k \in 1..Len(parser.calls)}

\* The invocations of functions built by createPattern.
PatternCalls == {c \in Calls : c.rule \in {"declaration", "parameter"}}

ListIterations == {parser.iters[k] : k \in 1..Len(parser.iters)}

SepCalls == {parser.seps[k] : k \in 1..Len(parser.seps)}

CodesOf(ds) == [k \in 1..Len(ds) |-> ds[k].code]

\* The name of a declaration or parameter node, <<>> when it is null.
NameOf(node) == IF node.name = <<>> THEN <<>> ELSE node.name[1].name

ParameterNamesOf(decl) ==
    [k \in 1..Len(decl.parameters) |-> NameOf(decl.parameters[k])]

\* C4 -- For every well-formed input of newline-separated declarations
\* func NAME(P1, ..., Pk), parse yields exactly one FunctionDeclaration per
\* declaration in source order, each with the declared name and exactly the
\* parameters P1..Pk in order, and no diagnostic is reported at all.
C4_WellFormedParsesCleanly ==
    \A c \in WellFormedCases :
        (Parsed /\ returned.of = c.text) =>
            /\ returned.fault = ""
            /\ Len(returned.AST) = Len(c.prog)
            /\ \A k \in 1..Len(c.prog) :
                  /\ returned.AST[k].type = "FunctionDeclaration"
                  /\ NameOf(returned.AST[k]) = c.prog[k].name
                  /\ ParameterNamesOf(returned.AST[k]) = c.prog[k].params
            /\ parser.reports = <<>>

\* C5 -- Whenever a matcher built by createPattern fails, the cursor after
\* the call is the position it had when the matcher was invoked, also when
\* sub-rules invoked inside it had succeeded before the failure.
C5_FailedPatternRestoresCursor ==
    Parsed => \A c \in PatternCalls : ~c.ok => c.exit = c.entry

C7_ListLoopsProgress ==
    Parsed =>
        /\ returned.fault # "hang"
        /\ \A it \in ListIterations :
              /\ ~it.matched => it.end > it.start
              /\ it.low >= it.start

\* Both loops ran an iteration that collected nothing, and a rule failed
\* after the cursor had moved, so that restore moved it back.
C7_Witness ==
    /\ Parsed
    /\ \E it \in ListIterations : it.fn = "readArray" /\ ~it.matched
    /\ \E it \in ListIterations : it.fn = "readArraySep" /\ ~it.matched
    /\ \E c \in Calls : ~c.ok /\ c.sub # {}

\* The diagnostics reported while invocation inv was the innermost rule, in
\* report order.
ReportedIn(inv) == SelectSeq(parser.reports, LAMBDA d : d.inv = inv)

Range(f) == {f[k] : k \in 1..Len(f)}

\* Node.getAllDiagnostics of a declaration: its own diagnostics and those of
\* its parameters.
AllDiagnostics(decl) ==
    Range(decl.diagnostics)
      \cup UNION {Range(q.diagnostics) : q \in Range(decl.parameters)}

\* Every diagnostic that outlives the parse: those on a node of the AST and
\* those left in a frame.
Surfaced ==
    UNION {AllDiagnostics(n) : n \in Range(returned.AST)}
      \cup UNION {Range(f) : f \in Range(parser.frames)}

Adjacent(s, j) ==
    /\ j > 1
    /\ s.iters[j].matched
    /\ s.iters[j - 1].matched
    /\ s.iters[j - 1].end = s.iters[j - 1].afterMatch

\* item follows prev directly in the collected list
CollectedInOrder(s, prev, item) ==
    \E k \in 1..Len(s.collected) - 1 :
        s.collected[k] = prev /\ s.collected[k + 1] = item

\* C9 -- In readArraySep, whenever an item is matched directly after a
\* collected item with no separator consumed between them, exactly one
\* MissedListSeparator is reported for that adjacency and both items are
\* collected, in order.
C9_MissedListSeparator ==
    Parsed =>
        \A s \in SepCalls : \A j \in 1..Len(s.iters) :
            Adjacent(s, j) =>
                /\ CodesOf(s.iters[j].reports) = <<"MissedListSeparator">>
                /\ CollectedInOrder(s, s.iters[j - 1].item[1],
                                    s.iters[j].item[1])

\* Two items with nothing between them were read.
C9_Witness ==
    Parsed /\ \E s \in SepCalls : \E j \in 1..Len(s.iters) : Adjacent(s, j)

\* Iteration j of readArraySep call s matched no item and began at a
\* separator.
ExtraSeparator(s, j) ==
    /\ ~s.iters[j].matched
    /\ isPunctuation(parser, s.iters[j].start, ",")

\* The items of the iterations that matched, in order.
MatchedItems(s) ==
    LET hits == SelectSeq(s.iters, LAMBDA it : it.matched)
    IN  [k \in 1..Len(hits) |-> hits[k].item[1]]

\* C10 -- In readArraySep, whenever no item matches at the current token and
\* that token is a separator, exactly one ExtraListSeparator is reported at
\* that separator, the separator is consumed, and the loop goes on: it ends
\* only at the end of the list and collects the items that follow.
C10_ExtraListSeparator ==
    Parsed =>
        \A s \in SepCalls : \A j \in 1..Len(s.iters) :
            ExtraSeparator(s, j) =>
                /\ CodesOf(s.iters[j].reports) = <<"ExtraListSeparator">>
                /\ s.iters[j].reports[1].position
                      = TokenAt(parser.b, s.iters[j].start).position
                /\ s.iters[j].end
                      = SkipNewLines(parser.b, s.iters[j].start + 1)
                /\ j = Len(s.iters) =>
                      readArraySepEnd([parser EXCEPT !.cur = s.iters[j].end])
                /\ s.collected = MatchedItems(s)

\* An extra separator was skipped and an item after it collected.
C10_Witness ==
    /\ Parsed
    /\ \E s \in SepCalls : \E j \in 1..Len(s.iters) :
          /\ ExtraSeparator(s, j)
          /\ \E k \in j + 1 .. Len(s.iters) : s.iters[k].matched

\* The last token before index i that is not a new line (next() skips new
\* lines), -1 when there is none.
RECURSIVE LastTokenBefore(_, _)
LastTokenBefore(b, i) ==
    IF i <= 0 THEN -1
    ELSE IF TokenAt(b, i - 1).kind = NEW_LINE THEN LastTokenBefore(b, i - 1)
    ELSE i - 1

\* The TrailingListSeparator diagnostics readArraySep call s reported.  A
\* declaration calls readArraySep once, so they are those of its invocation.
TrailingReports(s) ==
    SelectSeq(parser.reports,
              LAMBDA d : d.code = "TrailingListSeparator" /\ d.inv = s.inv)

\* The last token call s consumed was a separator.
EndsOnSeparator(s) ==
    /\ s.exit > s.entry
    /\ isPunctuation(parser, LastTokenBefore(parser.b, s.exit), ",")

\* C11 -- readArraySep reports TrailingListSeparator exactly once, after its
\* loop, if and only if the last token the loop consumed before it reached
\* the end token or the end of input was a separator; a list that ends on an
\* item reports none.
C11_TrailingListSeparator ==
    Parsed =>
        \A s \in SepCalls :
            Len(TrailingReports(s)) = IF EndsOnSeparator(s) THEN 1 ELSE 0


\* The number of steps of the pattern of call c.
StepsOf(c) == Len(names(parser.g, c.rule))

\* ceil(n / 2), which is at least 1 for a pattern of at least one step
HalfUp(n) == (n + 1) \div 2

\* floor(n / 2), and 1 when that is 0
HalfDown(n) == Max(1, n \div 2)

\* C12 as stated -- A pattern with n steps synthesizes a node if and only if
\* at least ceil(n / 2) of its steps, and at least one, succeed; with fewer
\* successful steps the rule fails and produces no node.
C12_CeilThreshold ==
    Parsed =>
        \A c \in PatternCalls :
            c.ok <=> (c.steps.counter >= HalfUp(StepsOf(c))
                        /\ c.steps.counter >= 1)

\* C12 amended -- A pattern with n steps synthesizes a node if and only if
\* at least floor(n / 2) of its steps, and at least one, succeed; with fewer
\* successful steps the rule fails and produces no node.
C12_FloorThreshold ==
    Parsed =>
        \A c \in PatternCalls :
            c.ok <=> c.steps.counter >= HalfDown(StepsOf(c))

\* A five-step declaration made a node out of two successful steps, and
\* another one failed with one successful step.
C12_Witness ==
    /\ Parsed
    /\ \E c \in PatternCalls :
          c.ok /\ c.steps.counter = 2 /\ StepsOf(c) = 5
    /\ \E c \in PatternCalls :
          ~c.ok /\ c.steps.counter = 1 /\ StepsOf(c) = 5


\* The UnexpectedEOF diagnostics reported while call c was the innermost
\* rule.
EofReports(c) ==
    SelectSeq(parser.reports,
              LAMBDA d : d.code = "UnexpectedEOF" /\ d.inv = c.inv)

\* The end of input was reached before step i of call c, the threshold being
\* met or not.
EofMidRule(c, i, met) ==
    /\ c.steps.eofAt = i
    /\ met <=> c.steps.counter >= HalfDown(StepsOf(c))

DepthFirstDiagnostics(ast) ==
    Flatten([k \in 1..Len(ast) |-> getAllDiagnostics(ast[k])])

\* Rule invocation inv was kept: it and every invocation around it returned
\* a node.
Kept(inv) ==
    /\ \E c \in Calls : c.inv = inv
    /\ \A c \in Calls : (c.inv = inv \/ inv \in c.sub) => c.ok

\* C14 -- getParseErrors returns the empty list when the source has not been
\* parsed or its parse was invalidated by an edit, and otherwise returns
\* every diagnostic attached to any node of the AST at any depth, depth
\* first, and every diagnostic reported during the parse by a rule that was
\* kept.
C14_GetParseErrors ==
    /\ parseInfo = <<>> => getParseErrors(parseInfo) = <<>>
    /\ parseInfo # <<>> =>
          /\ getParseErrors(parseInfo) = DepthFirstDiagnostics(parseInfo[1])
          /\ \A d \in Range(parser.reports) :
                Kept(d.inv) => d \in Range(getParseErrors(parseInfo))


----------------------------------------------------------------------------
(* findTokenIndexAtPosition on its own: the token array of a text made of  *)
(* one word repeated, one of the words possibly replaced by the empty      *)
(* string literal, and one search in it.                                   *)

\* Bound on the number of words of the text.
MaxArray == 9

\* Bound on the length of an identifier word.
MaxSpan == 2

\* The words: a punctuation, which needs no blank after it, and identifiers
\* followed by a blank.
Units ==
    {<<"(">>} \cup {[k \in 1..n + 1 |-> IF k <= n THEN "a" ELSE " "] :
                      n \in 1..MaxSpan}

\* The empty string literal followed by a blank.
EmptyLiteral == <<"\"", "\"", " ">>

\* n words, word z (1-based; 0: none) being the empty string literal.
RECURSIVE Layout(_, _, _)
Layout(n, unit, z) ==
    IF n = 0 THEN <<>>
    ELSE Layout(n - 1, unit, z) \o (IF n = z THEN EmptyLiteral ELSE unit)

\* The texts searched: with and without a leading blank.
FindTexts ==
    {lead \o Layout(n, unit, z) :
        lead \in {<<>>, <<" ">>}, n \in 0..MaxArray, unit \in Units,
        z \in 0..MaxArray}

InitFind ==
    /\ content \in FindTexts
    /\ loaded = TRUE
    /\ backend = Tokenize(content)
    /\ stream = [text |-> content, cursor |-> list(content, 0).cursor,
                 current |-> NoToken]
    /\ pending = NoPending
    /\ editInfo = NoEditInfo
    /\ nEdits = 0
    /\ provider = content
    /\ parser = ParserLoaded(GrammarTs)
    /\ parseInfo = <<>>
    /\ returned = NotReturned
    /\ observed = NoCall
    /\ caches = NoCaches

\* findTokenIndexAtPosition(list, position, start)
FindToken(position, start) ==
    /\ observed = NoCall
    /\ observed' = [fn |-> "findTokenIndexAtPosition",
                    args |-> <<position, start>>,
                    result |-> findTokenIndexAtPosition(backend, position,
                                                        start)]
    /\ UNCHANGED <<content, loaded, backend, stream, pending, editInfo,
                   nEdits, provider, parser, parseInfo, returned, caches>>

NextFind ==
    \E position \in 0..Len(content) : \E start \in 0..Len(backend) :
        FindToken(position, start)

SpecFind == InitFind /\ [][NextFind]_vars

\* A search was made: for position p from index s.
Searched(p, s) ==
    observed.fn = "findTokenIndexAtPosition" /\ observed.args = <<p, s>>

\* Position p lies in the span of token k of the array.
InSpan(p, k) ==
    /\ backend[k + 1].position <= p
    /\ p < backend[k + 1].position + backend[k + 1].length

\* The array is sorted by start offset and its spans are disjoint.
SortedDisjoint ==
    \A j \in 1..Len(backend) - 1 :
        /\ backend[j].position < backend[j + 1].position
        /\ backend[j].position + backend[j].length <= backend[j + 1].position

\* C15 -- For every token array sorted by start offset with disjoint spans,
\* every index k, every search start s <= k and every position p in the span
\* of token k, findTokenIndexAtPosition(list, p, s) returns k.
C15_FindInsideSpan ==
    SortedDisjoint =>
        \A k \in 0..Len(backend) - 1 : \A s \in 0..k :
            \A p \in 0..Len(content) :
                (Searched(p, s) /\ InSpan(p, k)) =>
                    observed.result = [outcome |-> "ok", index |-> k]

\* A search that had to jump by more than one token found its token, after
\* a start that is not the beginning of the array.
C15_Witness ==
    /\ Len(backend) >= 8
    /\ \E p \in 0..Len(content) : \E s \in 1..Len(backend) - 1 :
          /\ Searched(p, s)
          /\ InSpan(p, Len(backend) - 1)
          /\ observed.result.index = Len(backend) - 1

\* Position p lies in the span of no token.
InNoSpan(p) == \A k \in 0..Len(backend) - 1 : ~InSpan(p, k)

\* C16 -- For every position that lies in no token's span, past the end of
\* all tokens, before the first token or in a gap between two consecutive
\* tokens, findTokenIndexAtPosition terminates and returns -1.
C16_FindOutsideSpans ==
    \A p \in 0..Len(content) : \A s \in 0..Len(backend) :
        (Searched(p, s) /\ InNoSpan(p)) =>
            observed.result = [outcome |-> "ok", index |-> -1]


----------------------------------------------------------------------------
(* The tokenizer on its own: new TokenStream(source).list() for a loaded   *)
(* source.  Two revisions of Q.Source.File are in the repository:          *)
(* src/src/source.ts, which has no addParseError method, and               *)
(* src/unnamed/part_005, which has one.                                    *)

SourceTs == "source.ts"
SourcePart005 == "part_005"

FileRevisions == {SourceTs, SourcePart005}

\* Bound on the length of the text scanned.
MaxText == 4

\* The characters of the texts scanned: a letter, a digit, a punctuation, a
\* string delimiter, the escape character, a blank, the two new-line
\* characters and a character that begins no token.
ScanAlphabet == {"a", "1", ".", "\"", "\\", " ", "\n", "\r", "#"}

\* What list() does for a File of revision rev holding text: r is the run of
\* the loop with the errors handed to source.addParseError.  Calling the
\* method on a File that has none throws a TypeError out of list().
listOn(rev, text, r) ==
    IF r.errors # <<>> /\ rev = SourceTs
    THEN [fault |-> "TypeError", tokens |-> <<>>, ends |-> <<>>,
          cursor |-> r.errors[1].position, errors |-> <<>>]
    ELSE [fault |-> "", tokens |-> r.tokens, ends |-> r.ends,
          cursor |-> r.cursor, errors |-> r.errors]

InitScan ==
    /\ content \in SeqsUpTo(ScanAlphabet, MaxText) \ {<<>>}
    /\ loaded = TRUE
    /\ backend = <<>>
    /\ stream = [text |-> content, cursor |-> 0, current |-> NoToken]
    /\ pending = NoPending
    /\ editInfo = NoEditInfo
    /\ nEdits = 0
    /\ provider = content
    /\ parser = ParserLoaded(GrammarTs)
    /\ parseInfo = <<>>
    /\ returned = NotReturned
    /\ observed = NoCall
    /\ caches = NoCaches

\* new TokenStream(source).list(), source being a File of revision rev
ScannerList(rev) ==
    /\ observed = NoCall
    /\ \E r \in {list(content, 0)} :
          /\ observed' = [fn |-> "list", args |-> <<rev>>,
                          result |-> listOn(rev, content, r)]
          /\ stream' = [stream EXCEPT
                          !.cursor = listOn(rev, content, r).cursor]
          /\ backend' = listOn(rev, content, r).tokens
    /\ UNCHANGED <<content, loaded, pending, editInfo, nEdits, provider,
                   parser, parseInfo, returned, caches>>

NextScan == \E rev \in FileRevisions : ScannerList(rev)

SpecScan == InitScan /\ [][NextScan]_vars


\* list() was called, and what came of it.
Scanned == observed.fn = "list"

\* The run of list() over the whole text, the errors handed to
\* addParseError taken as recorded.
Run == list(content, 0)

\* Offset o is where readNext looks for the start of a token: it is inside
\* no token the run read.
AtTokenStart(o) ==
    \A i \in 1..Len(Run.tokens) :
        ~(Run.tokens[i].position <= o /\ o < Run.ends[i])

\* C17 -- For every text, draining the tokenizer with list() terminates:
\* each token read strictly advances the cursor, the cursor never exceeds
\* the text length, and the tokens have strictly increasing start offsets,
\* each starting at or after the previous token's start + length.
C17_ListAdvances ==
    Scanned =>
        LET r == observed.result
        IN  /\ r.fault \in {"", "TypeError"}
            /\ r.cursor <= Len(content)
            /\ \A i \in 1..Len(r.tokens) :
                  /\ r.ends[i] > (IF i = 1 THEN 0 ELSE r.ends[i - 1])
                  /\ r.ends[i] <= Len(content)
            /\ \A i \in 1..Len(r.tokens) - 1 :
                  /\ r.tokens[i].position < r.tokens[i + 1].position
                  /\ r.tokens[i].position + r.tokens[i].length
                        <= r.tokens[i + 1].position

\* A text of a token, an unterminated string literal and a stray character
\* was drained.
C17_Witness ==
    /\ Scanned
    /\ Len(observed.result.tokens) >= 2
    /\ observed.result.tokens[Len(observed.result.tokens)].kind
          = STRING_LITERAL
    /\ \E i \in 1..Len(observed.result.errors) :
          observed.result.errors[i].code = "UnterminatedStringLiteral"
    /\ \E i \in 1..Len(observed.result.errors) :
          observed.result.errors[i].code = "UnexpectedCharacter"

\* The characters of the alphabet that begin no token and are not skipped
\* as blanks or new lines.
StrayChars == {"#", "\\"}

\* The character at offset o begins no token.
Stray(o) == CharAt(content, o) \in StrayChars /\ AtTokenStart(o)

\* The errors of list() with the code and position given.
ErrorsAt(code, o) ==
    SelectSeq(observed.result.errors,
              LAMBDA e : e.code = code /\ e.position = o)

\* C18 -- For each character that begins no token, the tokenizer records
\* exactly one UnexpectedCharacter error positioned at that character's
\* offset, skips exactly that one character, and goes on to produce the
\* tokens that follow; no fault is raised.
C18_UnexpectedCharacter ==
    Scanned =>
        \A o \in 0..Len(content) - 1 :
            Stray(o) =>
                /\ observed.result.fault = ""
                /\ Len(ErrorsAt("UnexpectedCharacter", o)) = 1
                /\ SelectSeq(observed.result.tokens,
                             LAMBDA t : t.position > o)
                      = list(content, o + 1).tokens

\* The string literal that begins at offset o has no closing delimiter.
Unterminated(o) ==
    /\ CharAt(content, o) = "\""
    /\ Run.tokens # <<>>
    /\ Run.tokens[Len(Run.tokens)].kind = STRING_LITERAL
    /\ Run.tokens[Len(Run.tokens)].position = o
    /\ ~readEscaped(content, o, "\"").closed

\* C19 -- When a string literal's closing delimiter is missing, the
\* tokenizer records one UnterminatedStringLiteral error positioned at the
\* offset of the opening delimiter, emits a string token holding the partial
\* content, leaves the cursor at the end of the text, and raises no fault.
C19_UnterminatedStringLiteral ==
    Scanned =>
        \A o \in 0..Len(content) - 1 :
            Unterminated(o) =>
                LET r == observed.result
                IN  /\ r.fault = ""
                    /\ Len(r.errors) >= 1
                    /\ Len(ErrorsAt("UnterminatedStringLiteral", o)) = 1
                    /\ r.tokens # <<>>
                    /\ r.tokens[Len(r.tokens)]
                          = Token(STRING_LITERAL,
                                  readEscaped(content, o, "\"").str, o,
                                  Len(readEscaped(content, o, "\"").str))
                    /\ r.cursor = Len(content)


----------------------------------------------------------------------------
(* Q.Source.File: getLinesSync and lookupLineNumberAndColumn.              *)

\* The characters the "." of a regular expression does not match.
LineTerminators == {"\n", "\r"}

\* The length of the match of /.*(\r?\n)?/ at offset c of text.
LineMatch(text, c) ==
    LET e == RunEnd(text, c, {text[k] : k \in 1..Len(text)} \ LineTerminators)
    IN  IF CharAt(text, e) = "\n" THEN e + 1 - c
        ELSE IF CharAt(text, e) = "\r" /\ CharAt(text, e + 1) = "\n"
        THEN e + 2 - c
        ELSE e - c

\* content.match(/.*(\r?\n)?/g) from offset c on, as the lengths of the
\* matches: after an empty match the search goes on one character later,
\* and the last match is the empty one at the end of the text.
RECURSIVE MatchAll(_, _)
MatchAll(text, c) ==
    IF c > Len(text) THEN <<>>
    ELSE <<LineMatch(text, c)>>
           \o MatchAll(text, IF LineMatch(text, c) = 0 THEN c + 1
                             ELSE c + LineMatch(text, c))

\* getLinesSync(): the matches without the last one, as lengths.
getLinesSync(text) ==
    SubSeq(MatchAll(text, 0), 1, Len(MatchAll(text, 0)) - 1)

\* lineLengthMapCache: map[i] is the sum of the lengths of the lines before
\* line i.
RECURSIVE LineMap(_, _)
LineMap(lines, current) ==
    IF lines = <<>> THEN <<>>
    ELSE <<current>> \o LineMap(Tail(lines), current + Head(lines))

\* map[i] > position, map[i] being undefined outside the array
MapGreater(map, i, position) ==
    i >= 0 /\ i < Len(map) /\ map[i + 1] > position

\* The while loop of lookupLineNumberAndColumn from (index, step); a pair
\* (index, step) met again means the loop never ends: outcome "hang".
RECURSIVE LookupLoop(_, _, _, _, _)
LookupLoop(map, position, index, step, seen) ==
    IF ~(index < Len(map))
    THEN [outcome |-> "ok", line |-> index,
          column |-> position - map[Len(map)] + 1]
    ELSE IF <<index, step>> \in seen
    THEN [outcome |-> "hang", line |-> 0, column |-> 0]
    ELSE IF MapGreater(map, index, position)
    THEN LookupLoop(map, position, index - step, halveStep(step),
                    seen \cup {<<index, step>>})
    ELSE IF MapGreater(map, index + 1, position)
    THEN IF index < 0
         THEN [outcome |-> "NaN", line |-> index + 1, column |-> 0]
         ELSE [outcome |-> "ok", line |-> index + 1,
               column |-> position - map[index + 1] + 1]
    ELSE LookupLoop(map, position, index + step, halveStep(step),
                    seen \cup {<<index, step>>})

\* lookupLineNumberAndColumn(position) for a File holding text
\* getContentSync() on a File whose contentCache is text (<<>>: undefined
\* or the empty string, both falsy).
getContentSync(text) ==
    IF text = <<>>
    THEN [outcome |-> "Source content is not loaded.", text |-> <<>>]
    ELSE [outcome |-> "ok", text |-> text]

\* getLinesSync() on a File with caches c and contentCache text: what it
\* returns or throws, and the caches it leaves.
\* return (this.linesCache = lines)
LinesCached(c, lines) ==
    [outcome |-> "ok", lines |-> lines,
     caches |-> [c EXCEPT !.lines = <<lines>>, !.linesAt = c.epoch]]

getLinesSyncOn(c, text) ==
    IF c.lines # <<>>
    THEN [outcome |-> "ok", lines |-> c.lines[1], caches |-> c]
    ELSE IF getContentSync(text).outcome # "ok"
    THEN [outcome |-> getContentSync(text).outcome, lines |-> <<>>,
          caches |-> c]
    ELSE LinesCached(c, getLinesSync(text))

\* The search of lookupLineNumberAndColumn in the table map: an empty table
\* gives [0, NaN] at once.
LookupIn(map, position) ==
    IF map = <<>> THEN [outcome |-> "NaN", line |-> 0, column |-> 0]
    ELSE LookupLoop(map, position, TruncDiv(Len(map), 2),
                    TruncDiv(Len(map), 4), {})

\* this.lineLengthMapCache = map, then the search in it.
MapCached(c, map, position) ==
    [result |-> LookupIn(map, position),
     caches |-> [c EXCEPT !.map = <<map>>, !.mapAt = c.epoch]]

\* The table built from what getLinesSync() handed back in l: a throw of
\* getLinesSync leaves the caches as they were.
MapFrom(c, l, position) ==
    IF l.outcome # "ok"
    THEN [result |-> [outcome |-> l.outcome, line |-> 0, column |-> 0],
          caches |-> c]
    ELSE MapCached(l.caches, LineMap(l.lines, 0), position)

\* lookupLineNumberAndColumn(position) on a File with caches c and
\* contentCache text: the result, and the caches it leaves.
lookupOn(c, text, position) ==
    IF c.map # <<>>
    THEN [result |-> LookupIn(c.map[1], position), caches |-> c]
    ELSE MapFrom(c, getLinesSyncOn(c, text), position)

\* lookupLineNumberAndColumn(position) for a File holding text, none of its
\* caches built.
lookupLineNumberAndColumn(text, position) ==
    lookupOn(NoCaches, text, position).result

\* Bound on the length of the text whose lines are looked up.
MaxLineText == 8

\* The characters of those texts: a letter and the two new-line characters.
LineAlphabet == {"a", "\n", "\r"}

InitLookup ==
    /\ content \in SeqsUpTo(LineAlphabet, MaxLineText)
    /\ loaded = TRUE
    /\ backend = <<>>
    /\ stream = NoStream
    /\ pending = NoPending
    /\ editInfo = NoEditInfo
    /\ nEdits = 0
    /\ provider = content
    /\ parser = ParserLoaded(GrammarTs)
    /\ parseInfo = <<>>
    /\ returned = NotReturned
    /\ observed = NoCall
    /\ caches = NoCaches

\* source.lookupLineNumberAndColumn(position)
FileLookup(position) ==
    /\ \E r \in {lookupOn(caches, content, position)} :
          /\ observed' = [fn |-> "lookupLineNumberAndColumn",
                          args |-> <<position>>, result |-> r.result]
          /\ caches' = r.caches
    /\ UNCHANGED <<content, loaded, backend, stream, pending, editInfo,
                   nEdits, provider, parser, parseInfo, returned>>

\* One lookup on each freshly loaded File.
NextLookup ==
    \E position \in 0..Len(content) :
       observed = NoCall /\ FileLookup(position)

SpecLookup == InitLookup /\ [][NextLookup]_vars

\* The line table of the text.
LineStarts == LineMap(getLinesSync(content), 0)

\* Line L (1-based) of the table holds offset o: its start is at or before
\* o and the start of its successor, if it has one, is after o.
HoldsOffset(L, o) ==
    /\ LineStarts[L] <= o
    /\ L < Len(LineStarts) => LineStarts[L + 1] > o

\* C20 -- For every text and every offset o with 0 <= o < len(text), lookup
\* terminates and returns the 1-based line L whose start offset in the line
\* table is <= o and whose successor's start offset, if any, is > o, with
\* column o - lineStart(L) + 1, the answer of a linear scan of the line
\* table; in particular lookup(0) = (1, 1).
C20_LookupLineAndColumn ==
    \A o \in 0..Len(content) - 1 :
        (observed.fn = "lookupLineNumberAndColumn" /\ observed.args = <<o>>)
          => /\ observed.result.outcome = "ok"
             /\ observed.result.line \in 1..Len(LineStarts)
             /\ HoldsOffset(observed.result.line, o)
             /\ observed.result.column
                   = o - LineStarts[observed.result.line] + 1
             /\ o = 0 => /\ observed.result.line = 1
                         /\ observed.result.column = 1

\* C21 -- For every offset o with 0 <= o <= len(text), if lookup(o) =
\* (line, column) then lineTable[line - 1] + column - 1 = o: the line and
\* the column, put back through the line table, give the offset again.
C21_LookupRoundTrip ==
    \A o \in 0..Len(content) :
        (observed.fn = "lookupLineNumberAndColumn" /\ observed.args = <<o>>)
          => /\ observed.result.outcome = "ok"
             /\ observed.result.line \in 1..Len(LineStarts)
             /\ LineStarts[observed.result.line] + observed.result.column - 1
                   = o

----------------------------------------------------------------------------
(* Q.Source.File: a source that is loaded, read, looked up, edited, parsed *)
(* and reset, with its four caches.                                        *)

\* What the provider may hold: nothing, or two lines.
CacheTexts == {<<>>, <<"a", "\n", "a">>}

\* The characters an edit of these texts inserts.
CacheAlphabet == {"a", "\n"}

\* Bound on the invalidations (edits and resets) of a run.
MaxEpochs == 1

\* new File(path)
InitCache ==
    /\ provider \in CacheTexts
    /\ content = <<>>
    /\ loaded = FALSE
    /\ backend = <<>>
    /\ stream = NoStream
    /\ pending = NoPending
    /\ editInfo = NoEditInfo
    /\ nEdits = 0
    /\ parser = ParserLoaded(GrammarTs)
    /\ parseInfo = <<>>
    /\ returned = NotReturned
    /\ observed = NoCall
    /\ caches = NoCaches

\* source.resetCache()
FileResetCache ==
    /\ caches.epoch < MaxEpochs
    /\ content' = <<>>
    /\ loaded' = FALSE
    /\ parseInfo' = <<>>
    /\ caches' = Invalidated(resetCache(caches))
    /\ observed' = NoCall
    /\ UNCHANGED <<backend, stream, pending, editInfo, nEdits, provider,
                   parser, returned>>

\* source.getContentSync()
FileGetContentSync ==
    /\ observed' = [fn |-> "getContentSync", args |-> <<>>,
                    result |-> getContentSync(content)]
    /\ UNCHANGED <<content, loaded, backend, stream, pending, editInfo,
                   nEdits, provider, parser, parseInfo, returned, caches>>

\* source.getLinesSync()
FileGetLinesSync ==
    /\ \E r \in {getLinesSyncOn(caches, content)} :
          /\ observed' = [fn |-> "getLinesSync", args |-> <<>>,
                          result |-> [outcome |-> r.outcome,
                                      lines |-> r.lines]]
          /\ caches' = r.caches
    /\ UNCHANGED <<content, loaded, backend, stream, pending, editInfo,
                   nEdits, provider, parser, parseInfo, returned>>

NextCache ==
    \/ FileGetContent
    \/ FileGetContentSync
    \/ FileGetLinesSync
    \/ \E position \in 0..Len(content) : FileLookup(position)
    \/ \E start \in 0..Len(content) : \E end \in start..Len(content) :
          \E text \in SeqsUpTo(CacheAlphabet, MaxNew) :
             caches.epoch < MaxEpochs /\ FileEdit(start, end, text)
    \/ FileResetCache
    \/ FileParse

SpecCache == InitCache /\ [][NextCache]_vars

\* C22 -- After any interleaving of edit and lookup operations on a loaded
\* source, the line list and the line table used by lookup equal those
\* computed from scratch from the current content: no line list, line table
\* or parse result built before an edit is used after it.
C22_CachesFollowEdits ==
    /\ caches.lines # <<>> =>
          /\ caches.lines[1] = getLinesSync(content)
          /\ caches.linesAt = caches.epoch
    /\ caches.map # <<>> =>
          /\ caches.map[1] = LineMap(getLinesSync(content), 0)
          /\ caches.mapAt = caches.epoch
    /\ parseInfo # <<>> => caches.parseAt = caches.epoch
    /\ observed.fn = "lookupLineNumberAndColumn" =>
          observed.result
            = lookupLineNumberAndColumn(content, observed.args[1])
    /\ observed.fn = "getLinesSync" /\ observed.result.outcome = "ok" =>
          observed.result.lines = getLinesSync(content)

\* A lookup built the line table, an edit changed the number of lines, and
\* a later lookup answered from a rebuilt table.
C22_Witness ==
    /\ nEdits > 0
    /\ loaded
    /\ caches.map # <<>>
    /\ caches.mapAt = caches.epoch
    /\ caches.epoch > 0
    /\ Len(caches.map[1]) # Len(LineMap(getLinesSync(provider), 0))
    /\ observed.fn = "lookupLineNumberAndColumn"
    /\ observed.result.outcome = "ok"

\* C23 -- Between two invalidations the content provider is read at most
\* once per source, however often the content, the lines, a lookup or a parse
\* are requested, and getContentSync succeeds after any completed getContent,
\* for every text the provider may return, the empty string included.
C23_ProviderReadOnce ==
    /\ caches.reads <= 1
    /\ (observed.fn = "getContentSync" /\ loaded /\ nEdits = 0) =>
          observed.result.outcome = "ok"

----------------------------------------------------------------------------
(* Parsing the same materialized token list again with the same engine.    *)

\* Bounds of the texts parsed again: words chosen freely, and parses.
MaxAgainToks == 3
MaxAgain == 2

AgainTexts ==
    {Render(h \o w) : h \in Heads, w \in SeqsUpTo(Vocabulary, MaxAgainToks)}

InitAgain ==
    /\ content \in AgainTexts
    /\ loaded = TRUE
    /\ backend = Tokenize(content)
    /\ stream = [text |-> content, cursor |-> list(content, 0).cursor,
                 current |-> NoToken]
    /\ pending = NoPending
    /\ editInfo = NoEditInfo
    /\ nEdits = 0
    /\ provider = content
    /\ \E g \in Grammars : parser = ParserLoaded(g)
    /\ parseInfo = <<>>
    /\ returned = NotReturned
    /\ observed = NoCall
    /\ caches = NoCaches

NextAgain == ParserParseUpTo(MaxAgain)

SpecAgain == InitAgain /\ [][NextAgain]_vars

\* C24 -- Parsing the same unmodified materialized token list twice yields
\* structurally equal ASTs and equal diagnostics: the second parse does not
\* depend on the cursor stack, the error frames or the nodes the first left
\* behind.
C24_ReparseIsIdempotent ==
    parser.previous # <<>> =>
        /\ parser.previous[1].fault = parser.fault
        /\ parser.fault = "" => parser.previous[1].AST = parser.ret.nodes
        /\ parser.previous[1].reports = parser.reports

\* A second parse that returned declarations and reported diagnostics, with
\* more than one error frame on the stack when it began.
C24_Witness ==
    /\ parser.parses = 2
    /\ parser.fault = ""
    /\ parser.ret.nodes # <<>>
    /\ parser.reports # <<>>
    /\ parser.depths.frames > 1

\* C25 -- At the start of every parse() call both the cursor stack and the
\* error-frame stack are reset: the depth of each stack when grammar
\* matching starts is the same for the k-th parse as for the first.
C25_StacksResetAtParse ==
    parser.parses >= 1 => parser.depths = [stack |-> 1, frames |-> 1]

----------------------------------------------------------------------------
(* Q.Parser of src/unnamed/part_008: applyEdit and findContainingNode.     *)
(* nodes is ParsedInfo.nodes, a copy of constructedNodes: one entry per    *)
(* node, in the order of construction, with what nodesMap holds for it     *)
(* (the entity token its match began at and the closure fn).               *)

\* The inner while (true) of findContainingNode: nodes[index - 1] is read
\* before index is tested, and is undefined for index = 0.
RECURSIVE WalkBack(_, _, _)
WalkBack(nodes, pos, index) ==
    IF index - 1 < 0 THEN [outcome |-> "TypeError", index |-> index]
    ELSE IF nodes[index].node.start > pos \/ nodes[index].node.end <= pos
    THEN [outcome |-> "ok", index |-> index]
    ELSE WalkBack(nodes, pos, index - 1)

\* The outer while loop of findContainingNode; index -1 stands for null, and
\* a pair (index, step) met again means the loop never ends.
RECURSIVE ContainingLoop(_, _, _, _, _)
ContainingLoop(nodes, pos, index, step, seen) ==
    IF ~(index < Len(nodes)) THEN [outcome |-> "ok", index |-> -1]
    ELSE IF index < 0 THEN [outcome |-> "TypeError", index |-> index]
    ELSE IF <<index, step>> \in seen
    THEN [outcome |-> "hang", index |-> index]
    ELSE IF nodes[index + 1].node.start > pos
    THEN ContainingLoop(nodes, pos, index - step, halveStep(step),
                        seen \cup {<<index, step>>})
    ELSE IF nodes[index + 1].node.end > pos
    THEN WalkBack(nodes, pos, index)
    ELSE ContainingLoop(nodes, pos, index + step, halveStep(step),
                        seen \cup {<<index, step>>})

\* findContainingNode(nodes, position)
findContainingNode(nodes, pos) ==
    IF nodes = <<>> THEN [outcome |-> "ok", index |-> -1]
    ELSE ContainingLoop(nodes, pos, Len(nodes) \div 2,
                        IF Len(nodes) \div 4 = 0 THEN 1
                        ELSE Len(nodes) \div 4, {})

\* applyEdit before the lookup: currentSource = source; both stacks of
\* nodes and cursors are emptied.  b is the list after the edit; the ghost
\* logs start afresh.
applyEditReset(st, b) ==
    [st EXCEPT !.b = b, !.stack = <<>>, !.constructed = <<>>, !.fault = "",
               !.ret = RetFalse, !.child = <<>>, !.nid = 0, !.act = <<>>,
               !.calls = <<>>, !.iters = <<>>, !.seps = <<>>,
               !.reports = <<>>]

\* current = data.token; const newNode = data.fn()
Rematch(st, data) ==
    IF data.fn = "asIdentifer"
    THEN [SetCur(st, data.token) EXCEPT
            !.ret = asIdentifer(SetCur(st, data.token))]
    ELSE createPattern(data.fn, SetCur(st, data.token))

\* Object.assign(node, newNode) for the node at index found; a null newNode
\* has no properties to copy.
Assigned(nodes, found, m) ==
    IF m.ret.ok THEN [nodes EXCEPT ![found + 1].node = m.ret.nodes[1]]
    ELSE nodes

\* applyEdit(source, info, parserInfo) with info.numInserted = 1 and
\* info.delCount = 1, findContainingNode having returned f and, if it found
\* a node, data.fn() having returned in state m.
applyEditOneToken(st, nodes, f, m) ==
    IF f.outcome # "ok"
    THEN [outcome |-> f.outcome, found |-> -1, before |-> nodes,
          after |-> nodes, st |-> Throw(st, f.outcome)]
    ELSE IF f.index = -1
    THEN [outcome |-> "ok", found |-> -1, before |-> nodes, after |-> nodes,
          st |-> st]
    ELSE IF m.fault # ""
    THEN [outcome |-> m.fault, found |-> f.index, before |-> nodes,
          after |-> nodes, st |-> m]
    ELSE [outcome |-> "ok", found |-> f.index, before |-> nodes,
          after |-> Assigned(nodes, f.index, m), st |-> m]

\* Bound on the words of the texts parsed and then edited.
MaxPatchToks == 2

PatchTexts ==
    {Render(h \o w) : h \in Heads, w \in SeqsUpTo(Vocabulary, MaxPatchToks)}
      \cup {TestProgram}

\* The characters a one-character token is replaced by.
PatchChars == {"z", "(", ","}

\* A loaded file, its materialized list and the engine of part_008.
InitPatch ==
    /\ content \in PatchTexts
    /\ loaded = TRUE
    /\ backend = Tokenize(content)
    /\ stream = [text |-> content, cursor |-> list(content, 0).cursor,
                 current |-> NoToken]
    /\ pending = NoPending
    /\ editInfo = NoEditInfo
    /\ nEdits = 0
    /\ provider = content
    /\ parser = ParserLoaded008
    /\ parseInfo = <<>>
    /\ returned = NotReturned
    /\ observed = NoCall
    /\ caches = NoCaches

\* The text with the character at offset pos replaced by c.
Retyped(text, pos, c) == [text EXCEPT ![pos + 1] = c]

\* The edit of the character at pos to c replaces exactly the token at index
\* k by exactly one token: every other token of the list stays as it is.
OneForOne(k, c) ==
    /\ k < Len(backend)
    /\ backend[k + 1].length = 1
    /\ Len(Tokenize(Retyped(content, backend[k + 1].position, c)))
          = Len(backend)
    /\ \A j \in 1..Len(backend) :
          j # k + 1 =>
             Tokenize(Retyped(content, backend[k + 1].position, c))[j]
                = backend[j]
    /\ Tokenize(Retyped(content, backend[k + 1].position, c))[k + 1]
          # backend[k + 1]

\* After a parse: the token at index k is replaced by the one-character
\* token c (File.edit and Scanner.applyEdit), then
\* Parser.applyEdit(source, info, parserInfo) is called with
\* info.removedTokens = [the token replaced].
ParserApplyEdit(k, c) ==
    /\ parser.parses = 1
    /\ parser.fault = ""
    /\ observed = NoCall
    /\ OneForOne(k, c)
    /\ content' = Retyped(content, backend[k + 1].position, c)
    /\ backend' = Tokenize(content')
    /\ \E f \in {findContainingNode(parser.constructed,
                                    backend[k + 1].position)} :
       \E m \in {IF f.outcome = "ok" /\ f.index >= 0
                 THEN Rematch(applyEditReset(parser, backend'),
                              parser.constructed[f.index + 1])
                 ELSE applyEditReset(parser, backend')} :
       \E r \in {applyEditOneToken(applyEditReset(parser, backend'),
                                   parser.constructed, f, m)} :
          /\ parser' = r.st
          /\ observed' = [fn |-> "applyEdit",
                          args |-> <<backend[k + 1].position, c>>,
                          result |-> [outcome |-> r.outcome,
                                      found |-> r.found,
                                      before |-> r.before,
                                      after |-> r.after]]
    /\ UNCHANGED <<loaded, stream, pending, editInfo, nEdits, provider,
                   parseInfo, returned, caches>>

NextPatch ==
    \/ ParserParseUpTo(1)
    \/ \E k \in 0..MaxPatchToks + 2 : \E c \in PatchChars :
          ParserApplyEdit(k, c)

SpecPatch == InitPatch /\ [][NextPatch]_vars

\* The span of entry i (1-based) of a node list contains offset pos.
Contains(nodes, i, pos) ==
    nodes[i].node.start <= pos /\ pos < nodes[i].node.end

\* The entries of nodes whose span contains pos.
Containing(nodes, pos) == {i \in 1..Len(nodes) : Contains(nodes, i, pos)}

SpanOf(nodes, i) == nodes[i].node.end - nodes[i].node.start

\* What the closure of entry data returns when it is run from the entity it
\* is stored with, on list b, by an engine that has done nothing else.
FreshMatch(data, b) ==
    IF Rematch(applyEditReset(ParserLoaded008, b), data).fault # ""
    THEN RetFalse
    ELSE Rematch(applyEditReset(ParserLoaded008, b), data).ret

\* C26 -- When an edit replaced exactly one token by exactly one token,
\* Parser.applyEdit finds the smallest previously constructed node whose
\* span contains that token's offset, re-runs that node's stored match
\* closure from the node's original starting cursor and copies the resulting
\* fields into the existing node: the node keeps its place, its fields equal
\* those of a fresh match, every other node is left unchanged; and the lookup
\* of the containing node terminates without fault for every offset.
C26_ApplyEditRematches ==
    observed.fn = "applyEdit" =>
      LET r == observed.result
          pos == observed.args[1]
          in == Containing(r.before, pos)
      IN  /\ r.outcome = "ok"
          /\ Len(r.after) = Len(r.before)
          /\ in = {} => r.found = -1 /\ r.after = r.before
          /\ in # {} =>
               /\ r.found + 1 \in in
               /\ \A j \in in :
                     SpanOf(r.before, r.found + 1) <= SpanOf(r.before, j)
               /\ FreshMatch(r.before[r.found + 1], backend).ok
               /\ r.after[r.found + 1].node
                     = FreshMatch(r.before[r.found + 1], backend).nodes[1]
               /\ \A j \in 1..Len(r.before) :
                     j # r.found + 1 => r.after[j] = r.before[j]

----------------------------------------------------------------------------
(* The frame of Scanner.applyEdit, over SpecEdit.                          *)

\* The tokens an entity at `index` reads through itself and its prev chain:
\* entity.token, entity.prev.token, ... down to the head (index 0).
PrevChain(b, index) == [k \in 0..index |-> TokenAt(b, k)]

\* C27 -- applyEdit leaves every backing-array token at an index below
\* sIndex unchanged and keeps all tokens that were at indices above eIndex,
\* in the same relative order, directly after the inserted run; so an entity
\* whose index is below sIndex reads the same token and the same prev chain
\* before and after the edit.
C27_SpliceFrame ==
    (editInfo.called /\ editInfo.result.outcome = "ok") =>
      LET r == editInfo.result
          tail == Len(OldList) - 1 - r.eIndex
      IN  /\ \A i \in 0..(r.sIndex - 1) :
                /\ TokenAt(backend, i) = TokenAt(OldList, i)
                /\ PrevChain(backend, i) = PrevChain(OldList, i)
          /\ Len(backend) = r.sIndex + r.numInserted + tail
          /\ \A j \in 1..tail :
                TokenAt(backend, r.sIndex + r.numInserted + j - 1)
                  = TokenAt(OldList, r.eIndex + j)

\* C27 (amended) -- applyEdit leaves every token below sIndex unchanged and
\* keeps, in the same relative order and directly after the inserted run,
\* the tokens that were at indices above eIndex and not below sIndex: when
\* the end of the range is not found (eIndex = -1 < sIndex) nothing is
\* removed and the kept tokens are those from sIndex on.
C27_SpliceFrameFromStart ==
    (editInfo.called /\ editInfo.result.outcome = "ok") =>
      LET r == editInfo.result
          last == Max(r.eIndex, r.sIndex - 1)
          tail == Len(OldList) - 1 - last
      IN  /\ \A i \in 0..(r.sIndex - 1) :
                /\ TokenAt(backend, i) = TokenAt(OldList, i)
                /\ PrevChain(backend, i) = PrevChain(OldList, i)
          /\ Len(backend) = r.sIndex + r.numInserted + tail
          /\ \A j \in 1..tail :
                TokenAt(backend, r.sIndex + r.numInserted + j - 1)
                  = TokenAt(OldList, last + j)

\* An edit with tokens on both sides of a non-empty inserted run.
C27_Witness ==
    /\ editInfo.called
    /\ editInfo.result.outcome = "ok"
    /\ editInfo.result.sIndex > 0
    /\ editInfo.result.numInserted > 0
    /\ Len(backend) > editInfo.result.sIndex + editInfo.result.numInserted

----------------------------------------------------------------------------
(* The location of the nodes built by createPattern, over SpecParse.       *)

\* The tokens a rule invocation consumed: those the cursor passed between
\* its entry and its exit, the newlines next() skips left out.
ConsumedBy(c) ==
    {k \in c.entry..(c.exit - 1) : TokenAt(backend, k).kind # NEW_LINE}

\* C28 -- For every node produced by createPattern, location.start is the
\* start offset of the first token the pattern consumed and location.end is
\* start + length of the last token it consumed, also when the last executed
\* step is a multi-token sub-rule and when the pattern stopped early at the
\* end of the input.
C28_NodeLocation ==
    (Parsed /\ returned.fault = "") =>
      \A c \in PatternCalls :
         c.ok =>
           /\ ConsumedBy(c) # {}
           /\ \A k \in ConsumedBy(c) :
                 /\ (\A j \in ConsumedBy(c) : k <= j) =>
                       c.node[1].start = TokenAt(backend, k).position
                 /\ (\A j \in ConsumedBy(c) : j <= k) =>
                       c.node[1].end = TokenAt(backend, k).position
                                         + TokenAt(backend, k).length

----------------------------------------------------------------------------
(* Newlines and the cursor, over SpecParse.                                *)

\* C29 -- Whenever a pattern step, a separator test or an end test is
\* evaluated during a parse, the cursor's token is not a NEW_LINE token:
\* parse start, every advance and every cursor restore leave the cursor on
\* a token that is not a newline or at the end of the input.
C29_CursorSkipsNewLines ==
    Parsed =>
      /\ \A k \in parser.tested : TokenAt(backend, k).kind # NEW_LINE
      /\ TokenAt(backend, parser.cur).kind # NEW_LINE

\* A parse that evaluated steps or list tests on both sides of a newline.
C29_Witness ==
    /\ Parsed
    /\ returned.fault = ""
    /\ \E k \in 1..Len(backend) :
          /\ backend[k].kind = NEW_LINE
          /\ \E i \in parser.tested : i < k - 1
          /\ \E j \in parser.tested : j > k - 1 /\ j < Len(backend)

----------------------------------------------------------------------------
(* lrBinary: member access chains in the parameter list of a declaration,  *)
(* parsed with the grammar of src/src/parserGrammar.ts.                    *)

\* Bound on the tokens that follow "func x (".
MaxChain == 5

ChainWords == {<<"x">>, <<"y">>, <<".">>, <<",">>, <<"\n">>}

ChainTexts ==
    {Render(<<FUNC, <<"x">>, <<"(">> >> \o w) :
        w \in SeqsUpTo(ChainWords, MaxChain)}

InitChain ==
    /\ content \in ChainTexts
    /\ loaded = TRUE
    /\ backend = Tokenize(content)
    /\ stream = [text |-> content, cursor |-> list(content, 0).cursor,
                 current |-> NoToken]
    /\ pending = NoPending
    /\ editInfo = NoEditInfo
    /\ nEdits = 0
    /\ provider = content
    /\ parser = ParserLoaded(GrammarTs)
    /\ parseInfo = <<>>
    /\ returned = NotReturned
    /\ observed = NoCall
    /\ caches = NoCaches

NextChain == ParserParse

SpecChain == InitChain /\ [][NextChain]_vars

\* The tokens the grammar sees from index `from` on: newlines left out.
Visible(from) ==
    SelectSeq(SubSeq(backend, from + 1, Len(backend)),
              LAMBDA t : t.kind # NEW_LINE)

IsName(t) == t.kind = IDENTIFIER /\ ~t.keyword

NameNode(t) == Identifier(t.position, t.position + t.length, t.value)

IsDot(t) == t.kind = PUNCTUATION /\ t.value = <<".">>

\* The number of (operator, rhs) pairs that follow the head ts[1] directly.
RECURSIVE Pairs(_, _)
Pairs(ts, k) ==
    IF /\ 2 * k + 3 <= Len(ts)
       /\ IsDot(ts[2 * k + 2])
       /\ IsName(ts[2 * k + 3])
    THEN Pairs(ts, k + 1)
    ELSE k

\* factory(...factory(factory(head, r1), r2)..., rk)
RECURSIVE FoldLeft(_, _)
FoldLeft(ts, k) ==
    IF k = 0 THEN NameNode(ts[1])
    ELSE MemberAccess(FoldLeft(ts, k - 1), NameNode(ts[2 * k + 1]))

MemberAccessCalls == {c \in Calls : c.rule = "memberAccess"}

\* C30 -- lrBinary folds left-associatively: on head, op, r1, ..., op, rk it
\* returns factory(...factory(factory(head, r1), r2)..., rk); it returns the
\* head alone when no operator follows it, the chain built so far when an
\* operator is not followed by a matching rhs, and no node, with the cursor
\* restored to its entry position, when the head does not match.
C30_LrBinaryFoldsLeft ==
    (Parsed /\ returned.fault = "") =>
      \A c \in MemberAccessCalls :
         LET ts == Visible(c.entry)
         IN  IF ts # <<>> /\ IsName(ts[1])
             THEN /\ c.ok
                  /\ c.node = <<FoldLeft(ts, Pairs(ts, 0))>>
             ELSE /\ ~c.ok
                  /\ c.node = <<>>
                  /\ c.exit = c.entry

\* A parse that folded twice, one that returned a bare head, one that
\* stopped at an operator without rhs, and one whose head did not match.
C30_Witness ==
    /\ Parsed
    /\ returned.fault = ""
    /\ \E c \in MemberAccessCalls :
          /\ c.ok
          /\ c.node[1].type = "MemberAccess"
          /\ c.node[1].base.type = "MemberAccess"

----------------------------------------------------------------------------
(* The depth of cursorStack, over SpecParse.                               *)

\* C31 -- Every invocation of a pattern matcher or an lrBinary matcher
\* leaves cursorStack at exactly the depth it had on entry, whether it
\* succeeds or fails; the depth after parse() returns is the depth parse()
\* set up (the one entry it pushes) however many rules matched.
C31_CursorStackBalanced ==
    (Parsed /\ returned.fault = "") =>
      /\ \A c \in Calls : c.stackOut = c.stackIn
      /\ Len(parser.stack) = 1

----------------------------------------------------------------------------
(* Scanner.applyEdit against a fresh tokenization, over SpecEdit.          *)

\* The kinds and payloads of a token array.
KindsAndPayloads(b) ==
    [k \in 1..Len(b) |-> [kind |-> b[k].kind, value |-> b[k].value,
                          keyword |-> b[k].keyword]]

\* C32 -- After applyEdit on a materialized list that matched the text
\* before the edit, the backing array's sequence of token kinds and payloads
\* equals that of the edited text tokenized from scratch, for every edit
\* range within the text.
C32_EditEqualsRelex ==
    (editInfo.called /\ list(content, 0).errors = <<>>) =>
       /\ editInfo.result.outcome = "ok"
       /\ KindsAndPayloads(backend) = KindsAndPayloads(Tokenize(content))

\* C33 -- applyEdit terminates and returns an editHead whose index is
\* sIndex for every edit range within a text that lexes: also when it starts
\* in the whitespace between tokens or before the first token, for a pure
\* insertion and for an edit at or past the last token.
C33_ApplyEditReturns ==
    (editInfo.called /\ list(content, 0).errors = <<>>) =>
       /\ editInfo.result.outcome = "ok"
       /\ editInfo.result.editHead = editInfo.result.sIndex

\* C34 -- After applyEdit the backing array is sorted by strictly
\* increasing start offset with pairwise disjoint spans, and every token's
\* start offset is the offset at which that token occurs in the current
\* text: the tokens that follow the edit are shifted by newEnd - endPos.
C34_PositionsFollowEdits ==
    (editInfo.called /\ editInfo.result.outcome = "ok") =>
       /\ \A k \in 1..(Len(backend) - 1) :
             /\ backend[k].position < backend[k + 1].position
             /\ backend[k].position + backend[k].length
                   <= backend[k + 1].position
       /\ \A k \in 1..Len(backend) :
             readNext(content, backend[k].position, <<>>).token = backend[k]

----------------------------------------------------------------------------
(* The span of the tokens list() produces, over SpecScan.                  *)

\* C35 -- For every token the tokenizer produces, position + length equals
\* the tokenizer's cursor immediately after producing it (for a string
\* literal the span includes both delimiters and every escape backslash),
\* and every offset inside a consumed token is found by
\* findTokenIndexAtPosition.
C35_SpanIsWhatWasConsumed ==
    (Scanned /\ observed.result.fault = "") =>
        LET r == observed.result
        IN  \A i \in 1..Len(r.tokens) :
               /\ r.tokens[i].position + r.tokens[i].length = r.ends[i]
               /\ \A o \in r.tokens[i].position..(r.ends[i] - 1) :
                     findTokenIndexAtPosition(r.tokens, o, 0)
                       = [outcome |-> "ok", index |-> i - 1]

----------------------------------------------------------------------------
(* Q.Scanner.TokenStream: peek, next, eof and jump on a stream st =        *)
(* [text, cursor, current], current being the token peek() memoized.       *)

\* peek(): this.current || (this.current = this.readNext())
TokenStreamPeek(st) ==
    IF st.current # NoToken THEN [stream |-> st, token |-> st.current]
    ELSE [stream |-> [st EXCEPT
                        !.cursor = readNext(st.text, st.cursor, <<>>).cursor,
                        !.current = readNext(st.text, st.cursor, <<>>).token],
          token |-> readNext(st.text, st.cursor, <<>>).token]

\* next(): token = this.current; this.current = null;
\* return token || this.readNext()
TokenStreamNext(st) ==
    IF st.current # NoToken
    THEN [stream |-> [st EXCEPT !.current = NoToken], token |-> st.current]
    ELSE [stream |-> [st EXCEPT
                        !.cursor = readNext(st.text, st.cursor, <<>>).cursor],
          token |-> readNext(st.text, st.cursor, <<>>).token]

\* jump(cursor): this.cursor = cursor
TokenStreamJump(st, cursor) == [st EXCEPT !.cursor = cursor]

\* Bound on the length of the text of the stream.
MaxStream == 4

\* Characters of texts that lex without error.
StreamAlphabet == {"a", "(", " "}

\* new TokenStream(source) on a loaded file.
InitStream ==
    /\ content \in SeqsUpTo(StreamAlphabet, MaxStream) \ {<<>>}
    /\ loaded = TRUE
    /\ backend = <<>>
    /\ stream = [text |-> content, cursor |-> 0, current |-> NoToken]
    /\ pending = NoPending
    /\ editInfo = NoEditInfo
    /\ nEdits = 0
    /\ provider = content
    /\ parser = ParserLoaded(GrammarTs)
    /\ parseInfo = <<>>
    /\ returned = NotReturned
    /\ observed = NoCall
    /\ caches = NoCaches

\* Ghost: the offset of the jump that the call before this one made, if it
\* was a jump.
JustJumped == IF observed.fn = "jump" THEN observed.args ELSE <<>>

\* stream.peek()
StreamPeek ==
    /\ \E r \in {TokenStreamPeek(stream)} :
          /\ stream' = r.stream
          /\ observed' = [fn |-> "peek", args |-> JustJumped,
                          result |-> r.token]
    /\ UNCHANGED <<content, loaded, backend, pending, editInfo, nEdits,
                   provider, parser, parseInfo, returned, caches>>

\* stream.next()
StreamNext ==
    /\ \E r \in {TokenStreamNext(stream)} :
          /\ stream' = r.stream
          /\ observed' = [fn |-> "next", args |-> JustJumped,
                          result |-> r.token]
    /\ UNCHANGED <<content, loaded, backend, pending, editInfo, nEdits,
                   provider, parser, parseInfo, returned, caches>>

\* stream.eof(): this.peek() === null
StreamEof ==
    /\ \E r \in {TokenStreamPeek(stream)} :
          /\ stream' = r.stream
          /\ observed' = [fn |-> "eof", args |-> <<>>,
                          result |-> r.token = NoToken]
    /\ UNCHANGED <<content, loaded, backend, pending, editInfo, nEdits,
                   provider, parser, parseInfo, returned, caches>>

\* stream.jump(cursor)
StreamJump(cursor) ==
    /\ stream' = TokenStreamJump(stream, cursor)
    /\ observed' = [fn |-> "jump", args |-> <<cursor>>, result |-> <<>>]
    /\ UNCHANGED <<content, loaded, backend, pending, editInfo, nEdits,
                   provider, parser, parseInfo, returned, caches>>

NextStream ==
    \/ StreamPeek
    \/ StreamNext
    \/ StreamEof
    \/ \E cursor \in 0..Len(content) : StreamJump(cursor)

SpecStream == InitStream /\ [][NextStream]_vars

\* C36 -- After jump(c), the next token returned by peek() or next() is the
\* first token that starts at or after offset c in the stream's text (the
\* token a read from c gives), whether or not peek() or eof() had memoized
\* a token before the jump.
C36_JumpThenRead ==
    \A c \in 0..Len(content) :
       (observed.fn \in {"peek", "next"} /\ observed.args = <<c>>) =>
          observed.result = readNext(content, c, <<>>).token

----------------------------------------------------------------------------
(* File.hasError, over SpecFile.                                           *)

\* C37 -- File.hasError is true exactly when getParseErrors() returns a
\* non-empty list, in every state of the source: unparsed, parsed without
\* diagnostics, parsed with diagnostics, edited.
C37_HasErrorIffParseErrors ==
    hasError(parseInfo) <=> getParseErrors(parseInfo) # <<>>

----------------------------------------------------------------------------
(* Walking the AST a parse returned: getChildren and getAllDiagnostics of  *)
(* src/src/ast.ts on nodes built with the grammar of parserGrammar.ts.     *)

\* A field getChildren() lists holds null or undefined: the name of a
\* declaration, the name or the type of a parameter (the step failed or
\* never ran).
HasNullChild(node) ==
    CASE node.type = "FunctionDeclaration" -> node.name = <<>>
      [] node.type = "Parameter" -> node.name = <<>> \/ node.ptype = <<>>
      [] OTHER -> FALSE

\* [this.name, ...this.parameters, ...this.body] with parameters undefined:
\* the spread throws, or, compiled to concat, lists undefined as a child.
SpreadsUndefined(node) ==
    node.type = "FunctionDeclaration" /\ ~node.hasParameters

\* node.getAllDiagnostics() throws a TypeError: getChildren() throws, or a
\* listed child is null or undefined and node.getAllDiagnostics is read on
\* it, or the call on a child throws.
RECURSIVE getAllDiagnosticsThrows(_)
getAllDiagnosticsThrows(node) ==
    \/ SpreadsUndefined(node)
    \/ HasNullChild(node)
    \/ \E k \in 1..Len(getChildren(node)) :
          getAllDiagnosticsThrows(getChildren(node)[k])

\* Every node reachable from node through getChildren() has its parent set
\* to the node that lists it: it is among those whose parent the wrapper of
\* that node's rule assigned.
RECURSIVE ParentsSet(_)
ParentsSet(node) ==
    \A k \in 1..Len(getChildren(node)) :
       /\ getChildren(node)[k] \in Range(node.child)
       /\ ParentsSet(getChildren(node)[k])

\* C38 -- For every node returned by parse, best-effort nodes included,
\* enumerating its children and aggregating its diagnostics recursively
\* completes without fault, and every node reachable through getChildren
\* has its parent link set to the node that lists it.
C38_WalkCompletes ==
    (Parsed /\ returned.fault = "" /\ parser.g = GrammarTs) =>
       \A k \in 1..Len(returned.AST) :
          /\ ~getAllDiagnosticsThrows(returned.AST[k])
          /\ ParentsSet(returned.AST[k])

=============================================================================
